---------------------------- MODULE Spec2Model ----------------------------
(***************************************************************************)
(* Session-scoped elicitation bridge of the assistant backend              *)
(* (src/assistant_backend/mcp_client_gen.py, class MCPClientManager).      *)
(*                                                                         *)
(* The manager runs on one asyncio event loop, so every action below is    *)
(* the code executed between two points at which a coroutine really        *)
(* suspends (a lock that is taken, an Event or Future that is not set, an  *)
(* empty queue, a network round trip).  A put on the unbounded             *)
(* asyncio.Queue never suspends.                                           *)
(***************************************************************************)
EXTENDS Integers, Sequences, FiniteSets, TLC

\* ------------------------------------------------------------ bounds ----
MaxRuns == 2        \* start_tool_task calls in one behaviour
MaxConsumers == 2   \* attach_to_running_task generators in one behaviour
MaxLogins == 2      \* login_v2 invocations in one behaviour

\* session ids used by the callers
Sessions == {"s1", "s2"}
\* answers the user interface submits (response_data)
Answers == {"a1", "a2"}

\* the session id list_tools connects with
ListerSession == "system_tool_lister"
\* every key the registries of the manager can hold
AllSessions == Sessions \cup {ListerSession}

\* absent dictionary key / no task / no future
None == 0
NoFuture == <<0, 0>>

\* The interruptions each v2 tool raises, in order (mcp_server/main.py).
ToolElicits ==
  [ create_ticket_v2    |-> <<"form">>,
    login_v2            |-> <<"url">>,
    book_appointment_v2 |-> <<"form", "form">> ]
Tools == DOMAIN ToolElicits
\* the longest interruption sequence of a tool (book_appointment_v2)
MaxElicit == 2

RunIds == 1..MaxRuns
ConsumerIds == 1..MaxConsumers
\* a future is named by the run whose handler created it and the index of
\* the interruption within that run
FutureIds == RunIds \X (1..MaxElicit)
\* the list_tools call, as a caller of get_or_create_session
Lister == MaxRuns + 1
\* the callers of get_or_create_session: the runs and the list_tools call
CallerIds == RunIds \cup {Lister}
\* the future a handler creates on the connection of list_tools
ListerFuture == << Lister, 1 >>
\* the invocations of login_v2
LoginIds == 1..MaxLogins
\* the state invocation i of login_v2 makes (a fresh uuid4 in the code)
StateOf(i) == ToString(i)
\* the state oauth_auth makes (a fresh uuid4 in the code, one value here)
V1State == "v1state"
\* the state parameters a callback request can carry; "" is a missing or
\* empty one
StateParams == {StateOf(i) : i \in LoginIds} \cup {V1State, ""}
\* the code parameters a callback request can carry; "" is a missing or
\* empty one
CodeParams == {"TEST_CODE", ""}

VARIABLES
  sessions,            \* self.sessions: session id -> handle state
  event_queues,        \* self.event_queues: session id -> queue object
  submission_futures,  \* self.submission_futures: session id -> future
  connect_lock,        \* self.connect_lock: the run holding it, or None
  queues,              \* content of every asyncio.Queue object
  futures,             \* state of every asyncio.Future object
  runs,                \* the wrapped_call tasks
  nruns,               \* number of start_tool_task calls so far
  conn,                \* the _connect_user tasks, by the run that spawned it
  ready,               \* the ready_event of each _connect_user task
  consumers,           \* the attach_to_running_task generators
  ncons,               \* number of generators created so far
  diag,                \* what the submit_response call of the last step did
  enq,                 \* history: every item ever put on each queue
  published,           \* history: every item put, per session, in order
  lister,              \* the list_tools call of GET /tools
  auth_store,          \* mcp_server: the states the OAuth callback recorded
  logins,              \* mcp_server: the invocations of login_v2
  callback_status,     \* mcp_server: status of the last /oauth/callback
  legacy               \* the legacy (v1) request the backend is serving

\* the state of the bridge (MCPClientManager)
managerVars == << sessions, event_queues, submission_futures, connect_lock,
                 queues, futures, runs, nruns, conn, ready, consumers,
                 ncons, diag, enq, published, lister >>

\* the state of the tool server and of the legacy request handlers
serverVars == << auth_store, logins, callback_status, legacy >>

vars == << sessions, event_queues, submission_futures, connect_lock, queues,
           futures, runs, nruns, conn, ready, consumers, ncons, diag,
           enq, published, lister, auth_store, logins, callback_status,
           legacy >>

\* ------------------------------------------------------------- events ---
\* ElicitationEvent(type, content); run and k identify the publication and
\* epoch is the number of starts of the session made before it.
Event(type, content, r, k, ep) ==
  [type |-> type, content |-> content, run |-> r, k |-> k, epoch |-> ep]

\* the None that signals the end of the stream
Sentinel(r, ep) == Event("None", "None", r, 0, ep)

\* the line attach_to_running_task synthesizes when there is no queue
NotFoundEvent == Event("error", "Session not found", 0, 0, 0)

IsTerminal(e) == e.type \in {"result", "error"}

\* sawfail is history: the run was waiting for connect_lock when the
\* connection setup of its session failed
IdleRun ==
  [sid |-> "s1", tool |-> "login_v2", pc |-> "idle", hpc |-> "none",
   elicits |-> 0, fut |-> NoFuture, replies |-> <<>>, epoch |-> 0,
   sawfail |-> FALSE]

\* handler is what the handler invoked on the connection of list_tools did
IdleLister == [pc |-> "idle", handler |-> "none"]

\* an invocation of login_v2 that has not begun.  approved and
\* approved_at_submit are history: the callback recorded the state of the
\* invocation at some time, and it had when the answer was submitted.
IdleLogin ==
  [pc |-> "idle", text |-> "none", approved |-> FALSE,
   approved_at_submit |-> FALSE]

\* no /oauth/callback request was served yet
NoStatus == 0

\* no legacy request is being served.  outcome and returned are history:
\* how the tool call of the request ended and what it returned.
IdleLegacy ==
  [pc |-> "idle", message |-> << >>, tool_name |-> "none",
   tool_args |-> << >>, outcome |-> "none",
   returned |-> [json |-> FALSE, obj |-> [t |-> "none", v |-> << >>]],
   stream |-> << >>]

\* the session id caller c passes to get_or_create_session
SidOf(c) == IF c = Lister THEN ListerSession ELSE runs[c].sid

IdleConsumer ==
  [sid |-> "s1", q |-> None, pc |-> "idle", seen |-> <<>>, epoch |-> 0]

NoDiag == "none"

\* number of start_tool_task calls made for session s
Epoch(s) == Cardinality({r \in RunIds : runs[r].pc # "idle" /\ runs[r].sid = s})

Init ==
  /\ sessions = [s \in AllSessions |-> "absent"]
  /\ event_queues = [s \in AllSessions |-> None]
  /\ submission_futures = [s \in AllSessions |-> NoFuture]
  /\ connect_lock = None
  /\ queues = [q \in RunIds |-> <<>>]
  /\ futures = [f \in FutureIds \cup {ListerFuture} |-> "none"]
  /\ runs = [r \in RunIds |-> IdleRun]
  /\ nruns = 0
  /\ conn = [c \in CallerIds |-> "none"]
  /\ ready = [c \in CallerIds |-> FALSE]
  /\ consumers = [c \in ConsumerIds |-> IdleConsumer]
  /\ ncons = 0
  /\ diag = NoDiag
  /\ enq = [q \in RunIds |-> <<>>]
  /\ published = [s \in Sessions |-> <<>>]
  /\ lister = IdleLister
  /\ auth_store = {}
  /\ logins = [i \in LoginIds |-> IdleLogin]
  /\ callback_status = NoStatus
  /\ legacy = IdleLegacy

\* ------------------------------------------------------- publication ----
\* mutant of PutAll: the items are put on every registered queue, as they
\* would be if the queue were not looked up by session id
PutAll_Broadcast(s, items) ==
  /\ published' = [published EXCEPT ![s] = @ \o items]
  /\ queues' = [q \in RunIds |->
                  IF \E x \in Sessions : event_queues[x] = q
                    THEN queues[q] \o items ELSE queues[q]]
  /\ enq' = [q \in RunIds |->
               IF \E x \in Sessions : event_queues[x] = q
                 THEN enq[q] \o items ELSE enq[q]]

\* mutant of PutAll: the items are put on the queue the start of the
\* publishing run allocated
PutAll_OwnQueue(s, items) ==
  /\ published' = [published EXCEPT ![s] = @ \o items]
  /\ queues' = [queues EXCEPT ![items[1].run] = @ \o items]
  /\ enq' = [enq EXCEPT ![items[1].run] = @ \o items]

\* `await self.event_queues[session_id].put(item)` for each item of items,
\* guarded by `if session_id in self.event_queues`.
PutAll(s, items) ==
  /\ published' = [published EXCEPT ![s] = @ \o items]
  /\ IF event_queues[s] # None
       THEN /\ queues' = [queues EXCEPT ![event_queues[s]] = @ \o items]
            /\ enq' = [enq EXCEPT ![event_queues[s]] = @ \o items]
       ELSE UNCHANGED << queues, enq >>

\* ---------------------------------------------------- start_tool_task ---
\* mutant of NewQueueFor: a start keeps the queue the session already has
NewQueueFor_Reuse(s, r) == IF event_queues[s] # None THEN event_queues[s] ELSE r

\* The queue object a start allocates; the queue made by the n-th start is
\* queue n.
NewQueueFor(s, r) == r

\* mutant of start_tool_task: the start waits for connect_lock, as it would
\* if it awaited get_or_create_session itself
start_tool_task_Awaits(s, t) ==
  /\ nruns < MaxRuns
  /\ connect_lock = None
  /\ LET r == nruns + 1 IN
       /\ nruns' = r
       /\ event_queues' = [event_queues EXCEPT ![s] = NewQueueFor(s, r)]
       /\ runs' = [runs EXCEPT ![r] =
                     [IdleRun EXCEPT !.sid = s, !.tool = t, !.pc = "ensure",
                                     !.epoch = Epoch(s) + 1]]
  /\ UNCHANGED << sessions, submission_futures, connect_lock, queues, futures,
                  conn, ready, consumers, ncons, enq, published,
                  lister >>
  /\ diag' = NoDiag
  /\ UNCHANGED serverVars

\* The synchronous body of start_tool_task: a new queue is registered for
\* the session id and the wrapped_call task is created; the task has not
\* run yet when the call returns.
start_tool_task(s, t) ==
  /\ nruns < MaxRuns
  /\ LET r == nruns + 1 IN
       /\ nruns' = r
       /\ event_queues' = [event_queues EXCEPT ![s] = NewQueueFor(s, r)]
       /\ runs' = [runs EXCEPT ![r] =
                     [IdleRun EXCEPT !.sid = s, !.tool = t, !.pc = "ensure",
                                     !.epoch = Epoch(s) + 1]]
  /\ UNCHANGED << sessions, submission_futures, connect_lock, queues, futures,
                  conn, ready, consumers, ncons, enq, published,
                  lister >>
  /\ diag' = NoDiag
  /\ UNCHANGED serverVars

\* ------------------------------------------------ get_or_create_session ---
\* mutant of EnsureEnter: get_or_create_session does not take connect_lock
EnsureEnter_NoLock(r) ==
  /\ runs[r].pc = "ensure"
  /\ IF sessions[runs[r].sid] # "absent"
       THEN /\ runs' = [runs EXCEPT ![r].pc = "calling", ![r].sawfail = FALSE]
            /\ UNCHANGED << connect_lock, conn >>
       ELSE /\ connect_lock' = r
            /\ conn' = [conn EXCEPT ![r] = "opening"]
            /\ runs' = [runs EXCEPT ![r].pc = "waitready",
                                    ![r].sawfail = FALSE]
  /\ UNCHANGED << sessions, event_queues, submission_futures, queues, futures,
                  nruns, ready, consumers, ncons, enq, published, lister >>
  /\ diag' = NoDiag
  /\ UNCHANGED serverVars

\* mutant of EnsureEnter: the lock is released before the wait for
\* ready_event
EnsureEnter_WaitsUnlocked(r) ==
  /\ runs[r].pc = "ensure"
  /\ connect_lock = None
  /\ IF sessions[runs[r].sid] # "absent"
       THEN /\ runs' = [runs EXCEPT ![r].pc = "calling", ![r].sawfail = FALSE]
            /\ UNCHANGED << connect_lock, conn >>
       ELSE /\ connect_lock' = None
            /\ conn' = [conn EXCEPT ![r] = "opening"]
            /\ runs' = [runs EXCEPT ![r].pc = "waitready",
                                    ![r].sawfail = FALSE]
  /\ UNCHANGED << sessions, event_queues, submission_futures, queues, futures,
                  nruns, ready, consumers, ncons, enq, published,
                  lister >>
  /\ diag' = NoDiag
  /\ UNCHANGED serverVars

\* wrapped_call reaches `async with self.connect_lock` and gets the lock.
\* With a registered handle it returns it and goes on to call_tool;
\* otherwise it spawns _connect_user and waits for ready_event, still
\* holding the lock.
EnsureEnter(r) ==
  /\ runs[r].pc = "ensure"
  /\ connect_lock = None
  /\ IF sessions[runs[r].sid] # "absent"
       THEN /\ runs' = [runs EXCEPT ![r].pc = "calling", ![r].sawfail = FALSE]
            /\ UNCHANGED << connect_lock, conn >>
       ELSE /\ connect_lock' = r
            /\ conn' = [conn EXCEPT ![r] = "opening"]
            /\ runs' = [runs EXCEPT ![r].pc = "waitready",
                                    ![r].sawfail = FALSE]
  /\ UNCHANGED << sessions, event_queues, submission_futures, queues, futures,
                  nruns, ready, consumers, ncons, enq, published,
                  lister >>
  /\ diag' = NoDiag
  /\ UNCHANGED serverVars

\* _connect_user: sse_client and ClientSession are entered, the handle is
\* stored in self.sessions and session.initialize() is awaited.
ConnectOpen(r) ==
  /\ conn[r] = "opening"
  /\ conn' = [conn EXCEPT ![r] = "initializing"]
  /\ sessions' = [sessions EXCEPT ![SidOf(r)] = "registered"]
  /\ UNCHANGED << event_queues, submission_futures, connect_lock, queues,
                  futures, runs, nruns, ready, consumers, ncons,
                  enq, published,
                  lister >>
  /\ diag' = NoDiag
  /\ UNCHANGED serverVars

\* _connect_user: session.initialize() returned; ready_event.set() and the
\* task parks on `await asyncio.Future()`.
ConnectInit(r) ==
  /\ conn[r] = "initializing"
  /\ conn' = [conn EXCEPT ![r] = "alive"]
  /\ sessions' = [sessions EXCEPT ![SidOf(r)] = "ready"]
  /\ ready' = [ready EXCEPT ![r] = TRUE]
  /\ UNCHANGED << event_queues, submission_futures, connect_lock, queues,
                  futures, runs, nruns, consumers, ncons, enq,
                  published,
                  lister >>
  /\ diag' = NoDiag
  /\ UNCHANGED serverVars

\* mutant of ConnectCleanup: the cleanup also drops the session's queue
ConnectCleanup_DropsQueue(r) ==
  /\ conn' = [conn EXCEPT ![r] = "exited"]
  /\ sessions' = [sessions EXCEPT ![SidOf(r)] = "absent"]
  /\ event_queues' = [event_queues EXCEPT ![SidOf(r)] = None]
  /\ ready' = [ready EXCEPT ![r] = TRUE]

\* mutant of ConnectCleanup: the handle stays in the registry
ConnectCleanup_KeepsHandle(r) ==
  /\ conn' = [conn EXCEPT ![r] = "exited"]
  /\ sessions' = sessions
  /\ event_queues' = event_queues
  /\ ready' = [ready EXCEPT ![r] = TRUE]

\* the `finally` of _connect_user: the handle of the session is removed,
\* its queue is kept ("Do not delete queue") and ready_event is set
ConnectCleanup(r) ==
  /\ conn' = [conn EXCEPT ![r] = "exited"]
  /\ sessions' = [sessions EXCEPT ![SidOf(r)] = "absent"]
  /\ event_queues' = event_queues
  /\ ready' = [ready EXCEPT ![r] = TRUE]

\* the runs suspended on connect_lock for the session of caller c
LockWaiters(c) ==
  {x \in RunIds : x # c /\ runs[x].pc = "ensure" /\ runs[x].sid = SidOf(c)}

\* _connect_user: opening the transport or initializing the session raised.
ConnectFail(r) ==
  /\ conn[r] \in {"opening", "initializing"}
  /\ ConnectCleanup(r)
  /\ runs' = [x \in RunIds |->
               IF x \in LockWaiters(r) THEN [runs[x] EXCEPT !.sawfail = TRUE]
                                       ELSE runs[x]]
  /\ UNCHANGED << submission_futures, connect_lock, queues,
                  futures, nruns, consumers, ncons, enq,
                  published,
                  lister >>
  /\ diag' = NoDiag
  /\ UNCHANGED serverVars

\* _connect_user: the established connection ends.  The transport ends a
\* connection only when no call is in flight on it.
ConnectionLost(r) ==
  /\ conn[r] = "alive"
  /\ \A x \in RunIds : ~(runs[x].sid = SidOf(r) /\ runs[x].pc = "calling")
  /\ ConnectCleanup(r)
  /\ UNCHANGED << submission_futures, connect_lock, queues,
                  futures, runs, nruns, consumers, ncons, enq,
                  published,
                  lister >>
  /\ diag' = NoDiag
  /\ UNCHANGED serverVars

\* mutant of TerminalItems: the `finally` that puts the sentinel is missing
TerminalItems_NoSentinel(r, type, content) ==
  << Event(type, content, r, 0, Epoch(runs[r].sid)) >>

\* what wrapped_call publishes when it ends: the terminal event and then,
\* from its `finally`, the sentinel
TerminalItems(r, type, content) ==
  << Event(type, content, r, 0, Epoch(runs[r].sid)),
     Sentinel(r, Epoch(runs[r].sid)) >>

\* get_or_create_session resumes after ready_event: `return
\* self.sessions[session_id]` releases the lock and either yields the handle
\* (call_tool is sent) or raises KeyError, which wrapped_call reports.
EnsureResume(r) ==
  /\ runs[r].pc = "waitready"
  /\ ready[r]
  /\ connect_lock' = None
  /\ IF sessions[runs[r].sid] # "absent"
       THEN /\ runs' = [runs EXCEPT ![r].pc = "calling"]
            /\ UNCHANGED << queues, enq, published >>
       ELSE /\ runs' = [runs EXCEPT ![r].pc = "done"]
            /\ PutAll(runs[r].sid,
                      TerminalItems(r, "error", "Failed to get/create session"))
  /\ UNCHANGED << sessions, event_queues, submission_futures, futures, nruns,
                  conn, ready, consumers, ncons,
                  lister >>
  /\ diag' = NoDiag
  /\ UNCHANGED serverVars

\* ------------------------------------------------- _elicitation_handler ---
\* mutant of ElicitResult: the answer is dropped for every kind
ElicitResult_NoContent(kind, result_data) ==
  [action |-> "accept", content |-> "NoContent"]

\* mutant of ElicitResult: the answer is passed on for every kind
ElicitResult_AlwaysContent(kind, result_data) ==
  [action |-> "accept", content |-> result_data]

\* ElicitResult(action="accept") for a url interruption,
\* ElicitResult(action="accept", content=result_data) for a form one
ElicitResult(kind, result_data) ==
  IF kind = "url"
    THEN [action |-> "accept", content |-> "NoContent"]
    ELSE [action |-> "accept", content |-> result_data]

\* the interruption the transport raises next inside the call of run r
NextKind(r) == ToolElicits[runs[r].tool][runs[r].elicits + 1]

\* mutant of InvokeHandler: a future already registered for the session id
\* is left in the registry
InvokeHandler_KeepsSlot(r) ==
  /\ runs[r].pc = "calling"
  /\ runs[r].hpc = "none"
  /\ runs[r].elicits < Len(ToolElicits[runs[r].tool])
  /\ event_queues[runs[r].sid] # None
  /\ LET s == runs[r].sid
         f == << r, runs[r].elicits + 1 >>
     IN /\ submission_futures' =
             IF submission_futures[s] = NoFuture
               THEN [submission_futures EXCEPT ![s] = f]
               ELSE submission_futures
        /\ futures' = [futures EXCEPT ![f] = "pending"]
        /\ runs' = [runs EXCEPT ![r].hpc = "waiting", ![r].fut = f]
        /\ PutAll(s, << Event("elicitation", NextKind(r), r,
                              runs[r].elicits + 1, Epoch(s)) >>)
  /\ UNCHANGED << sessions, event_queues, connect_lock, nruns, conn, ready,
                  consumers, ncons,
                  lister >>
  /\ diag' = NoDiag
  /\ UNCHANGED serverVars

\* The transport invokes the callback inside call_tool: a fresh future is
\* registered for the session, the elicitation event is put on the queue
\* registered for the session and the handler awaits the future.  (Every
\* session a run belongs to has a queue, start_tool_task made it.)
InvokeHandler(r) ==
  /\ runs[r].pc = "calling"
  /\ runs[r].hpc = "none"
  /\ runs[r].elicits < Len(ToolElicits[runs[r].tool])
  /\ event_queues[runs[r].sid] # None
  /\ LET s == runs[r].sid
         f == << r, runs[r].elicits + 1 >>
     IN /\ submission_futures' = [submission_futures EXCEPT ![s] = f]
        /\ futures' = [futures EXCEPT ![f] = "pending"]
        /\ runs' = [runs EXCEPT ![r].hpc = "waiting", ![r].fut = f]
        /\ PutAll(s, << Event("elicitation", NextKind(r), r,
                              runs[r].elicits + 1, Epoch(s)) >>)
  /\ UNCHANGED << sessions, event_queues, connect_lock, nruns, conn, ready,
                  consumers, ncons,
                  lister >>
  /\ diag' = NoDiag
  /\ UNCHANGED serverVars

\* mutant of AwaitedResult: the handler reads the future of the first
\* interruption of its run
AwaitedResult_First(r) == futures[<< r, 1 >>]

\* the value `await self.submission_futures[session_id]` gives the handler
\* of run r: the result of the future it awaits
AwaitedResult(r) == futures[runs[r].fut]

\* mutant of CleanupFuture: the entry is left in the registry
CleanupFuture_Keeps(s) == submission_futures

\* `del self.submission_futures[session_id]`, guarded by the membership
\* test: the registry without the entry of session s
CleanupFuture(s) == [submission_futures EXCEPT ![s] = NoFuture]

\* The awaited future has a result: the handler removes the session's entry
\* from submission_futures and returns its reply to the transport.
HandlerResume(r) ==
  /\ runs[r].hpc = "waiting"
  /\ futures[runs[r].fut] \in Answers
  /\ submission_futures' = CleanupFuture(runs[r].sid)
  /\ runs' = [runs EXCEPT
                ![r].hpc = "none",
                ![r].fut = NoFuture,
                ![r].elicits = @ + 1,
                ![r].replies =
                   Append(@, ElicitResult(NextKind(r), AwaitedResult(r)))]
  /\ futures' = [futures EXCEPT ![runs[r].fut] = "none"]
  /\ UNCHANGED << sessions, event_queues, connect_lock, queues, nruns, conn,
                  ready, consumers, ncons, enq, published,
                  lister >>
  /\ diag' = NoDiag
  /\ UNCHANGED serverVars

\* ------------------------------------------------ wrapped_call, the end ---
\* the terminal event and sentinel are put in one step of the event loop
Finish(r, type, content) ==
  /\ runs' = [runs EXCEPT ![r].pc = "done", ![r].replies = <<>>]
  /\ PutAll(runs[r].sid, TerminalItems(r, type, content))
  /\ UNCHANGED << sessions, event_queues, submission_futures, connect_lock,
                  futures, nruns, conn, ready, consumers, ncons,
                  lister >>
  /\ diag' = NoDiag
  /\ UNCHANGED serverVars

\* mutant of ToolResult: the text does not depend on the replies
ToolResult_NoFields(tool, replies) == << tool, <<>> >>

\* the text of the tool's result: it is made from the tool and the content
\* of the replies its interruptions got
ToolResult(tool, replies) ==
  << tool, [i \in 1..Len(replies) |-> replies[i].content] >>

\* call_tool returns after the tool raised all its interruptions.
CallReturns(r) ==
  /\ runs[r].pc = "calling"
  /\ runs[r].hpc = "none"
  /\ runs[r].elicits = Len(ToolElicits[runs[r].tool])
  /\ Finish(r, "result", ToolResult(runs[r].tool, runs[r].replies))

\* call_tool raises (while no callback is being awaited).
CallRaises(r) ==
  /\ runs[r].pc = "calling"
  /\ runs[r].hpc = "none"
  /\ Finish(r, "error", "Error executing tool")

\* ------------------------------------------------------ submit_response ---
\* mutant of SubmitOutcome: the registry is indexed without the membership
\* test, so a missing entry raises KeyError
SubmitOutcome_NoSlotCheck(f) ==
  IF f = NoFuture THEN "raised"
  ELSE IF futures[f] = "pending" THEN "set"
  ELSE "already_done"

\* mutant of SubmitOutcome: the result is stored without the done() test
SubmitOutcome_Overwrite(f) ==
  IF f = NoFuture THEN "no_slot" ELSE "set"

\* what submit_response does for a session whose registered future is f
SubmitOutcome(f) ==
  IF f = NoFuture THEN "no_slot"
  ELSE IF futures[f] = "pending" THEN "set"
  ELSE "already_done"

\* mutant of submit_response: an answer that finds no slot is kept for the
\* session id in a resolved slot
submit_response_Buffers(s, v) ==
  /\ LET f == submission_futures[s]
         o == SubmitOutcome(f)
     IN IF o = "no_slot"
          THEN /\ diag' = "set"
               /\ submission_futures' =
                    [submission_futures EXCEPT ![s] = << 1, 1 >>]
               /\ futures' = [futures EXCEPT ![<< 1, 1 >>] = v]
          ELSE /\ diag' = o
               /\ futures' = IF o = "set" THEN [futures EXCEPT ![f] = v]
                                           ELSE futures
               /\ UNCHANGED submission_futures
  /\ UNCHANGED << sessions, event_queues, connect_lock,
                  queues, runs, nruns, conn, ready, consumers, ncons, enq,
                  published, lister >>
  /\ UNCHANGED serverVars

\* submit_response: the answer is stored in the future registered for the
\* session id if there is one and it is unresolved; otherwise a warning is
\* printed.
submit_response(s, v) ==
  /\ LET f == submission_futures[s]
         o == SubmitOutcome(f)
     IN /\ diag' = o
        /\ futures' = IF o = "set" THEN [futures EXCEPT ![f] = v]
                                    ELSE futures
  /\ UNCHANGED << sessions, event_queues, submission_futures, connect_lock,
                  queues, runs, nruns, conn, ready, consumers, ncons, enq,
                  published, lister >>
  /\ UNCHANGED serverVars

\* ----------------------------------------------- attach_to_running_task ---
\* mutant of AttachFirstStep: the `return` after the 'Session not found'
\* line is missing
AttachFirstStep_NoReturn(s) ==
  IF event_queues[s] = None
    THEN [sid |-> s, q |-> None, pc |-> "reading",
          seen |-> << NotFoundEvent >>, epoch |-> Epoch(s)]
    ELSE [sid |-> s, q |-> event_queues[s], pc |-> "reading",
          seen |-> <<>>, epoch |-> Epoch(s)]

\* mutant of AttachFirstStep: the generator returns when it finds the
\* queue empty, as it would with get_nowait
AttachFirstStep_NoWait(s) ==
  IF event_queues[s] = None
    THEN [sid |-> s, q |-> None, pc |-> "ended",
          seen |-> << NotFoundEvent >>, epoch |-> Epoch(s)]
    ELSE [sid |-> s, q |-> event_queues[s],
          pc |-> IF queues[event_queues[s]] = <<>> THEN "ended" ELSE "reading",
          seen |-> <<>>, epoch |-> Epoch(s)]

\* First step of the generator for session s: without a queue for the
\* session it yields the 'Session not found' line and returns; otherwise it
\* binds the queue registered now.
AttachFirstStep(s) ==
  IF event_queues[s] = None
    THEN [sid |-> s, q |-> None, pc |-> "ended",
          seen |-> << NotFoundEvent >>, epoch |-> Epoch(s)]
    ELSE [sid |-> s, q |-> event_queues[s], pc |-> "reading",
          seen |-> <<>>, epoch |-> Epoch(s)]

attach_to_running_task(s) ==
  /\ ncons < MaxConsumers
  /\ ncons' = ncons + 1
  /\ consumers' = [consumers EXCEPT ![ncons + 1] = AttachFirstStep(s)]
  /\ UNCHANGED << sessions, event_queues, submission_futures, connect_lock,
                  queues, futures, runs, nruns, conn, ready, enq,
                  published,
                  lister >>
  /\ diag' = NoDiag
  /\ UNCHANGED serverVars

\* mutant of AfterGet: the head is read but left in the queue
AfterGet_Peek(items) == items

\* what asyncio.Queue.get leaves in the queue: the head is removed
AfterGet(items) == Tail(items)

\* mutant of QueueGet: a sentinel is read but left in the queue, so that it
\* ends every reader
QueueGet_SentinelStays(c) ==
  /\ consumers[c].pc = "reading"
  /\ consumers[c].q # None
  /\ queues[consumers[c].q] # <<>>
  /\ LET e == Head(queues[consumers[c].q]) IN
       /\ queues' = IF e.type = "None" THEN queues
                     ELSE [queues EXCEPT ![consumers[c].q] = AfterGet(@)]
       /\ consumers' = [consumers EXCEPT
                          ![c].seen = Append(@, e),
                          ![c].pc = IF e.type = "None" THEN "ended"
                                                       ELSE "reading"]
  /\ UNCHANGED << sessions, event_queues, submission_futures, connect_lock,
                  futures, runs, nruns, conn, ready, ncons, enq,
                  published,
                  lister >>
  /\ diag' = NoDiag
  /\ UNCHANGED serverVars

\* `event = await queue.get()`: the consumer takes the head of its queue;
\* on None it ends, otherwise it yields the event.
QueueGet(c) ==
  /\ consumers[c].pc = "reading"
  /\ consumers[c].q # None
  /\ queues[consumers[c].q] # <<>>
  /\ LET e == Head(queues[consumers[c].q]) IN
       /\ queues' = [queues EXCEPT ![consumers[c].q] = AfterGet(@)]
       /\ consumers' = [consumers EXCEPT
                          ![c].seen = Append(@, e),
                          ![c].pc = IF e.type = "None" THEN "ended"
                                                       ELSE "reading"]
  /\ UNCHANGED << sessions, event_queues, submission_futures, connect_lock,
                  futures, runs, nruns, conn, ready, ncons, enq,
                  published,
                  lister >>
  /\ diag' = NoDiag
  /\ UNCHANGED serverVars

\* mutant of StopReading: closing the generator also empties its queue
StopReading_ClearsQueue(c) ==
  /\ consumers[c].pc = "reading"
  /\ consumers' = [consumers EXCEPT ![c].pc = "stopped"]
  /\ queues' = [q \in RunIds |->
                  IF q = consumers[c].q THEN <<>> ELSE queues[q]]
  /\ UNCHANGED << sessions, event_queues, submission_futures, connect_lock,
                  futures, runs, nruns, conn, ready, ncons,
                  enq, published,
                  lister >>
  /\ diag' = NoDiag
  /\ UNCHANGED serverVars

\* The caller stops reading (the HTTP client went away): the generator is
\* closed where it stands.
StopReading(c) ==
  /\ consumers[c].pc = "reading"
  /\ consumers' = [consumers EXCEPT ![c].pc = "stopped"]
  /\ UNCHANGED << sessions, event_queues, submission_futures, connect_lock,
                  queues, futures, runs, nruns, conn, ready, ncons,
                  enq, published,
                  lister >>
  /\ diag' = NoDiag
  /\ UNCHANGED serverVars

\* the future registered for session s is unresolved
SlotPending(s) ==
  /\ submission_futures[s] # NoFuture
  /\ futures[submission_futures[s]] = "pending"

\* ----------------------------------------------------------- list_tools ---
\* GET /tools calls list_tools, which calls
\* get_or_create_session("system_tool_lister").
list_tools ==
  /\ lister.pc = "idle"
  /\ lister' = [lister EXCEPT !.pc = "ensure"]
  /\ UNCHANGED << sessions, event_queues, submission_futures, connect_lock,
                  queues, futures, runs, nruns, conn, ready, consumers,
                  ncons, enq, published >>
  /\ diag' = NoDiag
  /\ UNCHANGED serverVars

\* get_or_create_session of list_tools gets connect_lock (as EnsureEnter)
ListerEnter ==
  /\ lister.pc = "ensure"
  /\ connect_lock = None
  /\ IF sessions[ListerSession] # "absent"
       THEN /\ lister' = [lister EXCEPT !.pc = "listing"]
            /\ UNCHANGED << connect_lock, conn >>
       ELSE /\ connect_lock' = Lister
            /\ conn' = [conn EXCEPT ![Lister] = "opening"]
            /\ lister' = [lister EXCEPT !.pc = "waitready"]
  /\ UNCHANGED << sessions, event_queues, submission_futures, queues, futures,
                  runs, nruns, ready, consumers, ncons, enq, published >>
  /\ diag' = NoDiag
  /\ UNCHANGED serverVars

\* get_or_create_session of list_tools resumes after ready_event (as
\* EnsureResume); the KeyError of a missing handle fails the request
ListerResume ==
  /\ lister.pc = "waitready"
  /\ ready[Lister]
  /\ connect_lock' = None
  /\ lister' = [lister EXCEPT
                  !.pc = IF sessions[ListerSession] # "absent" THEN "listing"
                                                               ELSE "failed"]
  /\ UNCHANGED << sessions, event_queues, submission_futures, queues, futures,
                  runs, nruns, conn, ready, consumers, ncons, enq,
                  published >>
  /\ diag' = NoDiag
  /\ UNCHANGED serverVars

\* `await session.list_tools()` returns
ListerReturns ==
  /\ lister.pc = "listing"
  /\ lister' = [lister EXCEPT !.pc = "done"]
  /\ UNCHANGED << sessions, event_queues, submission_futures, connect_lock,
                  queues, futures, runs, nruns, conn, ready, consumers,
                  ncons, enq, published >>
  /\ diag' = NoDiag
  /\ UNCHANGED serverVars

\* The remote side sends an interruption on the connection of list_tools,
\* a session id no start ever made a queue for: _elicitation_handler
\* registers a fresh future, finds no queue and returns (None).
ListerElicited ==
  /\ conn[Lister] = "alive"
  /\ lister.handler = "none"
  /\ event_queues[ListerSession] = None
  /\ submission_futures' =
       [submission_futures EXCEPT ![ListerSession] = ListerFuture]
  /\ futures' = [futures EXCEPT ![ListerFuture] = "pending"]
  /\ lister' = [lister EXCEPT !.handler = "returned"]
  /\ UNCHANGED << sessions, event_queues, connect_lock, queues, runs, nruns,
                  conn, ready, consumers, ncons, enq, published >>
  /\ diag' = NoDiag
  /\ UNCHANGED serverVars

\* ------------------------------------------------- mcp_server: login ---
\* GET /oauth/callback?code=..&state=..: with both parameters the code is
\* stored under the state (only the key matters to the tools), otherwise
\* the request is refused with status 400.
oauth_callback(code, state) ==
  /\ IF code # "" /\ state # ""
       THEN /\ auth_store' = auth_store \cup {state}
            /\ logins' = [i \in LoginIds |->
                            IF StateOf(i) = state
                              THEN [logins[i] EXCEPT !.approved = TRUE]
                              ELSE logins[i]]
            /\ callback_status' = 200
       ELSE /\ callback_status' = 400
            /\ UNCHANGED << auth_store, logins >>
  /\ UNCHANGED legacy
  /\ UNCHANGED managerVars

\* login_v2 is invoked: it makes its state and sends the url elicitation
\* that carries it, then awaits the reply.
login_v2(i) ==
  /\ logins[i].pc = "idle"
  /\ logins' = [logins EXCEPT ![i].pc = "eliciting"]
  /\ UNCHANGED << auth_store, callback_status, legacy >>
  /\ UNCHANGED managerVars

\* The user submits the (empty) answer of the url elicitation of invocation
\* i; the handler's acceptance is on its way to the tool.
ElicitUrlAnswered(i) ==
  /\ logins[i].pc = "eliciting"
  /\ logins' = [logins EXCEPT ![i].pc = "answered",
                              ![i].approved_at_submit =
                                 (StateOf(i) \in auth_store)]
  /\ UNCHANGED << auth_store, callback_status, legacy >>
  /\ UNCHANGED managerVars

\* mutant of LoginText: the store is not consulted
LoginText_AlwaysSuccess(found) == "Authentication successful (v2)!"

\* the text login_v2 returns, given whether its state is in auth_store
LoginText(found) ==
  IF found THEN "Authentication successful (v2)!"
           ELSE "Authentication failed (v2)"

\* elicit_url returns in login_v2: the tool looks its state up in
\* auth_store, removes it when found, and returns its text.
LoginResumes(i) ==
  /\ logins[i].pc = "answered"
  /\ logins' = [logins EXCEPT ![i].pc = "done",
                              ![i].text =
                                 LoginText(StateOf(i) \in auth_store)]
  /\ auth_store' = auth_store \ {StateOf(i)}
  /\ UNCHANGED << callback_status, legacy >>
  /\ UNCHANGED managerVars

\* --------------------------------------------------- strings and JSON ---
\* A Python str is the tuple of its parts, in order.  A text is a sequence
\* of tokens: the braces of a JSON object, a quoted JSON string, or raw
\* characters that are no JSON syntax (commas and colons are left out).
LBrace == [k |-> "{", s |-> << >>]
RBrace == [k |-> "}", s |-> << >>]
Quoted(str) == [k |-> "str", s |-> str]
Raw(str) == [k |-> "raw", s |-> str]

\* Python values: None, a bool, a str, a dict (its items in insertion order,
\* each a pair of a key str and a value)
PyNone == [t |-> "none", v |-> << >>]
PyBool(b) == [t |-> "bool", v |-> b]
PyStr(str) == [t |-> "str", v |-> str]
PyDict(items) == [t |-> "dict", v |-> items]

RECURSIVE JsonDumps(_)
RECURSIVE DumpItems(_)
\* json.dumps of the items of a dict
DumpItems(items) ==
  IF items = << >> THEN << >>
  ELSE << Quoted(items[1][1]) >> \o JsonDumps(items[1][2])
          \o DumpItems(Tail(items))

\* json.dumps of a str or of a dict of strs and dicts
JsonDumps(x) ==
  IF x.t = "str" THEN << Quoted(x.v) >>
  ELSE << LBrace >> \o DumpItems(x.v) \o << RBrace >>

\* what the parser returns when the text is no JSON
ParseFailure == [ok |-> FALSE, val |-> PyNone, rest |-> << >>]

RECURSIVE ParseValue(_)
RECURSIVE ParseItems(_, _)
\* the parser after the opening brace of an object: items is what it has
\* read of the object so far
ParseItems(toks, items) ==
  IF toks = << >> THEN ParseFailure
  ELSE IF Head(toks).k = "}"
    THEN [ok |-> TRUE, val |-> PyDict(items), rest |-> Tail(toks)]
  ELSE IF Head(toks).k # "str" THEN ParseFailure
  ELSE LET value == ParseValue(Tail(toks)) IN
         IF ~value.ok THEN ParseFailure
         ELSE ParseItems(value.rest,
                         Append(items, << Head(toks).s, value.val >>))

\* the parser at the start of a JSON value
ParseValue(toks) ==
  IF toks = << >> THEN ParseFailure
  ELSE IF Head(toks).k = "str"
    THEN [ok |-> TRUE, val |-> PyStr(Head(toks).s), rest |-> Tail(toks)]
  ELSE IF Head(toks).k = "{" THEN ParseItems(Tail(toks), << >>)
  ELSE ParseFailure

\* json.loads: ok is FALSE where it raises JSONDecodeError
JsonLoads(text) ==
  LET p == ParseValue(text) IN
    IF p.ok /\ p.rest = << >> THEN [ok |-> TRUE, data |-> p.val]
                              ELSE [ok |-> FALSE, data |-> PyNone]

\* dict.get(key, default) on the items of a dict
Get(items, key, default) ==
  LET at == {i \in 1..Len(items) : items[i][1] = key} IN
    IF at = {} THEN default
    ELSE items[CHOOSE i \in at : \A j \in at : j <= i][2]

\* the items of a dict after `d[key] = value`
SetItem(items, key, value) ==
  LET at == {i \in 1..Len(items) : items[i][1] = key} IN
    IF at = {} THEN Append(items, << key, value >>)
    ELSE [i \in 1..Len(items) |->
            IF i \in at THEN << key, value >> ELSE items[i]]

\* The arguments of a tool call are a function from argument names to
\* strs.  The argument is given and is not the empty str (Python truth).
Given(args, name) == name \in DOMAIN args /\ args[name] # << >>

\* the arguments a dict of strs stands for (single-part keys)
ArgsOf(items) ==
  [name \in {items[i][1][1] : i \in 1..Len(items)} |->
     Get(items, << name >>, PyNone).v]

\* -------------------------------------------- mcp_server: legacy tools ---
\* What a tool call gives back: the text of its first content item is
\* either json.dumps of an object or a plain string.
JsonReturn(obj) == [json |-> TRUE, obj |-> obj]
PlainReturn(str) == [json |-> FALSE, obj |-> PyStr(str)]

\* result.content[0].text
TextOf(ret) == IF ret.json THEN JsonDumps(ret.obj) ELSE << Raw(ret.obj.v) >>

\* the call is refused before the tool runs (a required argument is
\* missing, or there is no such tool): the result carries the error text
ToolError(tool_name) == PlainReturn(<< "Error executing tool ", tool_name >>)

simple_tool(args) ==
  IF "message" \notin DOMAIN args THEN ToolError("simple_tool")
  ELSE PlainReturn(<< "Processed: " >> \o args.message)

\* mutant of create_ticket: the name of the reporter is enough for a ticket
create_ticket_NameOnly(args) ==
  IF "initial_description" \notin DOMAIN args THEN ToolError("create_ticket")
  ELSE IF Given(args, "reporter_name")
    THEN JsonReturn(PyDict(<<
           << << "type" >>, PyStr(<< "result" >>) >>,
           << << "text" >>, PyStr(<< "Ticket created", " successfully!" >>) >>
         >>))
    ELSE JsonReturn(PyDict(<<
           << << "type" >>, PyStr(<< "elicitation" >>) >>,
           << << "elicitation_type" >>, PyStr(<< "form" >>) >>,
           << << "message" >>, PyStr(<< "Please provide ticket details" >>) >>,
           << << "context_data" >>,
              PyDict(<< << << "initial_description" >>,
                           PyStr(args.initial_description) >> >>) >>
         >>))

\* create_ticket (v1): with the three fields it returns the ticket, without
\* one of them the form to fill in (its `fields` list, which the backend
\* never reads, is left out).
create_ticket(args) ==
  IF "initial_description" \notin DOMAIN args THEN ToolError("create_ticket")
  ELSE IF /\ Given(args, "reporter_name")
          /\ Given(args, "priority")
          /\ Given(args, "description")
    THEN JsonReturn(PyDict(<<
           << << "type" >>, PyStr(<< "result" >>) >>,
           << << "text" >>,
              PyStr(<< "Ticket created", " successfully!", " Reporter: " >>
                    \o args.reporter_name \o << " Priority: " >>
                    \o args.priority \o << " Description: " >>
                    \o args.description) >>
         >>))
    ELSE JsonReturn(PyDict(<<
           << << "type" >>, PyStr(<< "elicitation" >>) >>,
           << << "elicitation_type" >>, PyStr(<< "form" >>) >>,
           << << "message" >>, PyStr(<< "Please provide ticket details" >>) >>,
           << << "context_data" >>,
              PyDict(<< << << "initial_description" >>,
                           PyStr(args.initial_description) >> >>) >>
         >>))

\* the state argument of oauth_auth is a key of store
StateFound(args, store) ==
  /\ Len(args.state) = 1
  /\ args.state[1] \in store

\* oauth_auth (v1): verifies a state the callback recorded, or asks for
\* the authentication with a new state
oauth_auth(args, store) ==
  IF Given(args, "auth_code") \/ (Given(args, "state") /\ StateFound(args, store))
    THEN JsonReturn(PyDict(<<
           << << "type" >>, PyStr(<< "result" >>) >>,
           << << "text" >>, PyStr(<< "Authentication successful!" >>) >>
         >>))
  ELSE IF Given(args, "state")
    THEN JsonReturn(PyDict(<<
           << << "type" >>, PyStr(<< "result" >>) >>,
           << << "text" >>, PyStr(<< "Authentication failed" >>) >>
         >>))
  ELSE JsonReturn(PyDict(<<
           << << "type" >>, PyStr(<< "elicitation" >>) >>,
           << << "elicitation_type" >>, PyStr(<< "url" >>) >>,
           << << "message" >>, PyStr(<< "Please authenticate via OAuth" >>) >>,
           << << "context_data" >>,
              PyDict(<< << << "state" >>, PyStr(<< V1State >>) >> >>) >>
         >>))

\* what the call of a legacy tool returns
ServerReturn(tool_name, args, store) ==
  CASE tool_name = "simple_tool" -> simple_tool(args)
    [] tool_name = "create_ticket" -> create_ticket(args)
    [] tool_name = "oauth_auth" -> oauth_auth(args, store)
    [] OTHER -> ToolError(tool_name)

\* mutant of StoreAfter: the verified state stays in the store
StoreAfter_Keeps(tool_name, args, store) == store

\* auth_store after the call: oauth_auth removes the state it verified
StoreAfter(tool_name, args, store) ==
  IF /\ tool_name = "oauth_auth"
     /\ ~Given(args, "auth_code")
     /\ Given(args, "state")
     /\ StateFound(args, store)
    THEN store \ {args.state[1]}
    ELSE store

\* other results a tool call of the legacy client can give (the server is
\* whatever MCP_SERVER_URL names): the ones of the mocked calls of
\* tests/verify.py, an elicitation without elicitation_type, a JSON string
OtherReturns ==
  << PlainReturn(<< "Processed: ", "hello" >>),
     JsonReturn(PyDict(<<
       << << "type" >>, PyStr(<< "elicitation" >>) >>,
       << << "elicitation_type" >>, PyStr(<< "form" >>) >>,
       << << "message" >>, PyStr(<< "Fill form" >>) >> >>)),
     JsonReturn(PyDict(<<
       << << "type" >>, PyStr(<< "result" >>) >>,
       << << "text" >>, PyStr(<< "Ticket Created" >>) >> >>)),
     JsonReturn(PyDict(<<
       << << "type" >>, PyStr(<< "elicitation" >>) >>,
       << << "message" >>, PyStr(<< "Fill form" >>) >> >>)),
     JsonReturn(PyStr(<< "elicitation" >>)) >>

\* ------------------------------------- assistant_backend: legacy flow ---
\* the words of the messages whose lower case differs
LowerCase == [Hello |-> "hello", Tickets |-> "tickets"]
Lower(word) == IF word \in DOMAIN LowerCase THEN LowerCase[word] ELSE word
\* request.message.lower()
LowerMessage(msg) == [i \in 1..Len(msg) |-> Lower(msg[i])]

\* the keywords that occur inside a longer word
Compound == [tickets |-> {"ticket"}]
KeywordsIn(word) == IF word \in DOMAIN Compound THEN Compound[word] ELSE {word}
\* `kw in message` for a keyword of one word
Has(msg, kw) == \E i \in 1..Len(msg) : kw \in KeywordsIn(msg[i])
\* `"a b" in message` for a keyword of two words
HasPhrase(msg, a, b) ==
  \E i \in 1..(Len(msg) - 1) : a \in KeywordsIn(msg[i]) /\ msg[i + 1] = b

\* the messages of the /chat requests
Messages ==
  { << "hello" >>, << "Hello", "there" >>, << "create", "ticket" >>,
    << "Tickets", "for", "broken", "printer" >>, << "login", "please" >>,
    << "ticket", "v2" >> }

\* the tool and arguments chat picks for a message
ChatRoute(msg) ==
  LET m == LowerMessage(msg) IN
    IF HasPhrase(m, "ticket", "v2") \/ HasPhrase(m, "tickt", "v2")
      THEN [tool_name |-> "create_ticket_v2",
            tool_args |-> [initial_description |-> m]]
    ELSE IF HasPhrase(m, "login", "v2")
      THEN [tool_name |-> "login_v2", tool_args |-> << >>]
    ELSE IF HasPhrase(m, "book", "v2") \/ Has(m, "appointment")
      THEN [tool_name |-> "book_appointment_v2", tool_args |-> << >>]
    ELSE IF Has(m, "ticket")
      THEN [tool_name |-> "create_ticket",
            tool_args |-> [message |-> msg,
                           initial_description |->
                             IF Has(m, "printer") THEN m
                                                  ELSE << "No desc" >>]]
    ELSE IF Has(m, "login")
      THEN [tool_name |-> "oauth_auth", tool_args |-> << >>]
    ELSE IF Has(m, "debug")
      THEN [tool_name |-> "debug_elicitation", tool_args |-> << >>]
    ELSE [tool_name |-> "simple_tool", tool_args |-> [message |-> msg]]

\* `"v2" in tool_name or "book" in tool_name or "debug" in tool_name`
IsV2(tool_name) ==
  tool_name \in {"create_ticket_v2", "login_v2", "book_appointment_v2",
                 "debug_elicitation"}

\* the parsed text is a dict whose type is elicitation
IsElicitation(p) ==
  /\ p.ok
  /\ p.data.t = "dict"
  /\ Get(p.data.v, << "type" >>, PyNone).t = "str"
  /\ Get(p.data.v, << "type" >>, PyNone).v = << "elicitation" >>

\* mutant of V1Events: the elicitation event is followed by a result event
V1Events_AlsoResult(tool_name, text) ==
  IF IsElicitation(JsonLoads(text))
    THEN LET data == SetItem(SetItem(JsonLoads(text).data.v,
                                     << "is_v1" >>, PyBool(TRUE)),
                             << "tool_name" >>, PyStr(<< tool_name >>))
         IN << [type |-> "elicitation",
                content |-> [elicitation_type |->
                               Get(data, << "elicitation_type" >>,
                                   PyStr(<< "form" >>)),
                             data |-> PyDict(data)]],
               [type |-> "result", content |-> text] >>
    ELSE << [type |-> "result", content |-> text] >>

\* the events v1_generator yields for the text of a tool result
V1Events(tool_name, text) ==
  IF IsElicitation(JsonLoads(text))
    THEN LET data == SetItem(SetItem(JsonLoads(text).data.v,
                                     << "is_v1" >>, PyBool(TRUE)),
                             << "tool_name" >>, PyStr(<< tool_name >>))
         IN << [type |-> "elicitation",
                content |-> [elicitation_type |->
                               Get(data, << "elicitation_type" >>,
                                   PyStr(<< "form" >>)),
                             data |-> PyDict(data)]] >>
    ELSE << [type |-> "result", content |-> text] >>

\* the call of the request being served has not returned
NoReturn == [json |-> FALSE, obj |-> PyNone]

\* POST /chat with a message that is routed to a legacy tool: the
\* response streams v1_generator, which first awaits the tool call.
chat(msg) ==
  /\ legacy.pc \in {"idle", "done"}
  /\ ~IsV2(ChatRoute(msg).tool_name)
  /\ legacy' = [pc |-> "chat", message |-> msg,
                tool_name |-> ChatRoute(msg).tool_name,
                tool_args |-> ChatRoute(msg).tool_args,
                outcome |-> "none", returned |-> NoReturn,
                stream |-> << >>]
  /\ UNCHANGED << auth_store, logins, callback_status >>
  /\ UNCHANGED managerVars

\* the request is over: what the call did and what was streamed
Served(outcome, ret, events) ==
  [legacy EXCEPT !.pc = "done", !.outcome = outcome, !.returned = ret,
                 !.stream = events]

\* v1_generator after `await legacy_manager.call_tool`: the call raised,
\* or it returned the result of the tool of this repository, or the
\* result of another server, or a result without content.
v1_generator ==
  /\ legacy.pc = "chat"
  /\ \/ /\ legacy' = Served("raised", NoReturn,
                            << [type |-> "error", content |-> "raised"] >>)
        /\ UNCHANGED auth_store
     \/ /\ legacy' = Served("empty", NoReturn, << >>)
        /\ UNCHANGED auth_store
     \/ LET ret == ServerReturn(legacy.tool_name, legacy.tool_args, auth_store)
        IN /\ legacy' = Served("tool", ret,
                               V1Events(legacy.tool_name, TextOf(ret)))
           /\ auth_store' =
                StoreAfter(legacy.tool_name, legacy.tool_args, auth_store)
     \/ \E i \in 1..Len(OtherReturns) :
           /\ legacy' = Served("other", OtherReturns[i],
                               V1Events(legacy.tool_name,
                                        TextOf(OtherReturns[i])))
           /\ UNCHANGED auth_store
  /\ UNCHANGED << logins, callback_status >>
  /\ UNCHANGED managerVars

\* what the user interface can send as the answers of the ticket form
FormResponses ==
  { [reporter_name |-> << "LegacyBot" >>, priority |-> << "low" >>,
     description |-> << "Legacy works too" >>],
    [reporter_name |-> << "LegacyBot" >>, priority |-> << "low" >>,
     description |-> << >>],
    [reporter_name |-> << "LegacyBot" >>,
     description |-> << "Legacy works too" >>] }

\* the answers sent for an elicitation of the given type: the form's
\* fields, or nothing for a url
ResponsesFor(elicitation_type) ==
  IF elicitation_type = << "form" >> THEN FormResponses ELSE { << >> }

AllResponses == FormResponses \cup { << >> }

\* mutant of submit_elicitation: the flagged request also runs the regular
\* logic, which submits to the session bridge
submit_elicitation_FallsThrough(responses, merge) ==
  /\ legacy.pc = "done"
  /\ legacy.stream # << >>
  /\ legacy.stream[1].type = "elicitation"
  /\ responses \in ResponsesFor(legacy.stream[1].content.elicitation_type.v)
  /\ LET data == legacy.stream[1].content.data.v
         context_data == Get(data, << "context_data" >>, PyDict(<< >>)).v
     IN legacy' = [legacy EXCEPT
                     !.pc = "submit",
                     !.tool_name = Get(data, << "tool_name" >>, PyNone).v[1],
                     !.tool_args = IF merge THEN ArgsOf(context_data) @@ responses
                                            ELSE responses,
                     !.outcome = "none",
                     !.returned = NoReturn,
                     !.stream = << >>]
  /\ LET f == submission_futures["s1"]
         o == SubmitOutcome(f)
     IN /\ diag' = o
        /\ futures' = IF o = "set" THEN [futures EXCEPT ![f] = "a1"]
                                    ELSE futures
  /\ UNCHANGED << auth_store, logins, callback_status >>
  /\ UNCHANGED << sessions, event_queues, submission_futures, connect_lock,
                  queues, runs, nruns, conn, ready, consumers, ncons, enq,
                  published, lister >>

\* POST /submit_elicitation flagged is_v1, made from the elicitation event
\* the last /chat streamed: the tool it names is called again with the
\* answers, to which the client has or has not added its context_data.
submit_elicitation(responses, merge) ==
  /\ legacy.pc = "done"
  /\ legacy.stream # << >>
  /\ legacy.stream[1].type = "elicitation"
  /\ responses \in ResponsesFor(legacy.stream[1].content.elicitation_type.v)
  /\ LET data == legacy.stream[1].content.data.v
         context_data == Get(data, << "context_data" >>, PyDict(<< >>)).v
     IN legacy' = [legacy EXCEPT
                     !.pc = "submit",
                     !.tool_name = Get(data, << "tool_name" >>, PyNone).v[1],
                     !.tool_args = IF merge THEN ArgsOf(context_data) @@ responses
                                            ELSE responses,
                     !.outcome = "none",
                     !.returned = NoReturn,
                     !.stream = << >>]
  /\ UNCHANGED << auth_store, logins, callback_status >>
  /\ UNCHANGED managerVars

\* v1_submit_generator after `await legacy_manager.call_tool`: the call
\* raised, or the text of the tool's result is streamed as a result event.
v1_submit_generator ==
  /\ legacy.pc = "submit"
  /\ \/ /\ legacy' = Served("raised", NoReturn,
                            << [type |-> "error", content |-> "raised"] >>)
        /\ UNCHANGED auth_store
     \/ LET ret == ServerReturn(legacy.tool_name, legacy.tool_args, auth_store)
        IN /\ legacy' = Served("tool", ret,
                               << [type |-> "result",
                                   content |-> TextOf(ret)] >>)
           /\ auth_store' =
                StoreAfter(legacy.tool_name, legacy.tool_args, auth_store)
  /\ UNCHANGED << logins, callback_status >>
  /\ UNCHANGED managerVars

\* ------------------------------------------------------ specifications ---
\* Spec: the stream side.  Two session ids, every operation of the manager,
\* the one-form tool and one answer value.
StreamTools == {"create_ticket_v2"}
StreamAnswers == {"a1"}
\* the session id started in the specifications that start one session id
StartSessions == {"s1"}
\* the tools of AnswerSpec: a form interruption and a url interruption
AnswerTools == {"create_ticket_v2", "login_v2"}

Next ==
  \/ \E s \in Sessions, t \in StreamTools : start_tool_task(s, t)
  \/ \E r \in RunIds : EnsureEnter(r)
  \/ \E r \in RunIds : ConnectOpen(r)
  \/ \E r \in RunIds : ConnectInit(r)
  \/ \E r \in RunIds : ConnectFail(r)
  \/ \E r \in RunIds : ConnectionLost(r)
  \/ \E r \in RunIds : EnsureResume(r)
  \/ \E r \in RunIds : InvokeHandler(r)
  \/ \E r \in RunIds : HandlerResume(r)
  \/ \E r \in RunIds : CallReturns(r)
  \/ \E r \in RunIds : CallRaises(r)
  \/ \E s \in Sessions, v \in StreamAnswers : submit_response(s, v)
  \/ \E s \in Sessions : attach_to_running_task(s)
  \/ \E c \in ConsumerIds : QueueGet(c)
  \/ \E c \in ConsumerIds : StopReading(c)

Spec == Init /\ [][Next]_vars

\* AnswerSpec: the answer side.  One session id is started, with a form
\* tool or a url tool; submits carry either answer value and go to either
\* session id; no stream consumer (a consumer only takes items off a
\* queue).
AnswerNext ==
  \/ \E s \in StartSessions, t \in AnswerTools : start_tool_task(s, t)
  \/ \E r \in RunIds : EnsureEnter(r)
  \/ \E r \in RunIds : ConnectOpen(r)
  \/ \E r \in RunIds : ConnectInit(r)
  \/ \E r \in RunIds : ConnectFail(r)
  \/ \E r \in RunIds : EnsureResume(r)
  \/ \E r \in RunIds : InvokeHandler(r)
  \/ \E r \in RunIds : HandlerResume(r)
  \/ \E r \in RunIds : CallReturns(r)
  \/ \E r \in RunIds : CallRaises(r)
  \/ \E s \in Sessions, v \in Answers : submit_response(s, v)

AnswerSpec == Init /\ [][AnswerNext]_vars

\* ReadSpec: the readers of one run.  One session id is started, at most
\* ReadRuns times; generators attach to either session id.
ReadRuns == 1

ReadNext ==
  \/ \E s \in StartSessions, t \in StreamTools :
        nruns < ReadRuns /\ start_tool_task(s, t)
  \/ \E r \in RunIds : EnsureEnter(r)
  \/ \E r \in RunIds : ConnectOpen(r)
  \/ \E r \in RunIds : ConnectInit(r)
  \/ \E r \in RunIds : ConnectFail(r)
  \/ \E r \in RunIds : EnsureResume(r)
  \/ \E r \in RunIds : InvokeHandler(r)
  \/ \E r \in RunIds : HandlerResume(r)
  \/ \E r \in RunIds : CallReturns(r)
  \/ \E r \in RunIds : CallRaises(r)
  \/ \E s \in StartSessions, v \in StreamAnswers : submit_response(s, v)
  \/ \E s \in Sessions : attach_to_running_task(s)
  \/ \E c \in ConsumerIds : QueueGet(c)
  \/ \E c \in ConsumerIds : StopReading(c)

ReadSpec == Init /\ [][ReadNext]_vars

\* RestartSpec: one session id started again and again, with its readers;
\* a call that was sent returns.
RestartConsumers == 1

RestartNext ==
  \/ \E s \in StartSessions, t \in StreamTools : start_tool_task(s, t)
  \/ \E r \in RunIds : EnsureEnter(r)
  \/ \E r \in RunIds : ConnectOpen(r)
  \/ \E r \in RunIds : ConnectInit(r)
  \/ \E r \in RunIds : ConnectFail(r)
  \/ \E r \in RunIds : EnsureResume(r)
  \/ \E r \in RunIds : InvokeHandler(r)
  \/ \E r \in RunIds : HandlerResume(r)
  \/ \E r \in RunIds : CallReturns(r)
  \/ \E s \in StartSessions, v \in StreamAnswers : submit_response(s, v)
  \/ \E s \in StartSessions :
        ncons < RestartConsumers /\ attach_to_running_task(s)
  \/ \E c \in ConsumerIds : QueueGet(c)
  \/ \E c \in ConsumerIds : StopReading(c)

RestartSpec == Init /\ [][RestartNext]_vars

\* EnsureSpec: the connection side.  One session id is started again and
\* again while GET /tools connects the session id of list_tools; connections
\* fail and end; no stream consumer.
EnsureNext ==
  \/ \E s \in StartSessions, t \in StreamTools : start_tool_task(s, t)
  \/ list_tools
  \/ \E r \in RunIds : EnsureEnter(r)
  \/ ListerEnter
  \/ \E c \in CallerIds : ConnectOpen(c)
  \/ \E c \in CallerIds : ConnectInit(c)
  \/ \E c \in CallerIds : ConnectFail(c)
  \/ \E r \in RunIds : ConnectionLost(r)
  \/ \E r \in RunIds : EnsureResume(r)
  \/ ListerResume
  \/ ListerReturns
  \/ ListerElicited
  \/ \E r \in RunIds : InvokeHandler(r)
  \/ \E r \in RunIds : HandlerResume(r)
  \/ \E r \in RunIds : CallReturns(r)
  \/ \E r \in RunIds : CallRaises(r)
  \/ \E s \in StartSessions, v \in StreamAnswers : submit_response(s, v)

EnsureSpec == Init /\ [][EnsureNext]_vars

\* PairSpec: two session ids side by side.  Either is started, with the
\* one-form tool; connections fail and end, calls raise, submits go to
\* either session id; no stream consumer.
PairNext ==
  \/ \E s \in Sessions, t \in StreamTools : start_tool_task(s, t)
  \/ \E r \in RunIds : EnsureEnter(r)
  \/ \E r \in RunIds : ConnectOpen(r)
  \/ \E r \in RunIds : ConnectInit(r)
  \/ \E r \in RunIds : ConnectFail(r)
  \/ \E r \in RunIds : ConnectionLost(r)
  \/ \E r \in RunIds : EnsureResume(r)
  \/ \E r \in RunIds : InvokeHandler(r)
  \/ \E r \in RunIds : HandlerResume(r)
  \/ \E r \in RunIds : CallReturns(r)
  \/ \E r \in RunIds : CallRaises(r)
  \/ \E s \in Sessions, v \in StreamAnswers : submit_response(s, v)

PairSpec == Init /\ [][PairNext]_vars

\* LoginSpec: the tool server serving login_v2 invocations and callback
\* requests of the approval page, in any order.
LoginNext ==
  \/ \E i \in LoginIds : login_v2(i)
  \/ \E code \in CodeParams, state \in StateParams : oauth_callback(code, state)
  \/ \E i \in LoginIds : ElicitUrlAnswered(i)
  \/ \E i \in LoginIds : LoginResumes(i)

LoginSpec == Init /\ [][LoginNext]_vars

\* LegacySpec: the legacy (v1) endpoints of the backend serving one request
\* after the other against the tool server, while callback requests come in.
LegacyNext ==
  \/ \E msg \in Messages : chat(msg)
  \/ v1_generator
  \/ \E responses \in AllResponses, merge \in BOOLEAN :
       submit_elicitation(responses, merge)
  \/ v1_submit_generator
  \/ \E code \in CodeParams, state \in {V1State, ""} :
       oauth_callback(code, state)

LegacySpec == Init /\ [][LegacyNext]_vars

\* BookSpec: the answer side of the tool that raises two form
\* interruptions.  One session id is started with it, at most BookRuns
\* times; submits carry either answer value; calls raise; one generator
\* attaches to it.
BookTools == {"book_appointment_v2"}
BookRuns == 1

BookNext ==
  \/ \E s \in StartSessions, t \in BookTools :
        nruns < BookRuns /\ start_tool_task(s, t)
  \/ \E r \in RunIds : EnsureEnter(r)
  \/ \E r \in RunIds : ConnectOpen(r)
  \/ \E r \in RunIds : ConnectInit(r)
  \/ \E r \in RunIds : EnsureResume(r)
  \/ \E r \in RunIds : InvokeHandler(r)
  \/ \E r \in RunIds : HandlerResume(r)
  \/ \E r \in RunIds : CallReturns(r)
  \/ \E r \in RunIds : CallRaises(r)
  \/ \E s \in StartSessions, v \in Answers : submit_response(s, v)
  \/ \E s \in StartSessions :
        ncons = 0 /\ attach_to_running_task(s)
  \/ \E c \in ConsumerIds : QueueGet(c)
  \/ \E c \in ConsumerIds : StopReading(c)

BookSpec == Init /\ [][BookNext]_vars

\* ReplaceSpec: one session id started again and again while its earlier
\* runs are in flight, with one generator attached at any time; calls
\* return or raise.
ReplaceNext ==
  \/ \E s \in StartSessions, t \in StreamTools : start_tool_task(s, t)
  \/ \E r \in RunIds : EnsureEnter(r)
  \/ \E r \in RunIds : ConnectOpen(r)
  \/ \E r \in RunIds : ConnectInit(r)
  \/ \E r \in RunIds : EnsureResume(r)
  \/ \E r \in RunIds : InvokeHandler(r)
  \/ \E r \in RunIds : HandlerResume(r)
  \/ \E r \in RunIds : CallReturns(r)
  \/ \E r \in RunIds : CallRaises(r)
  \/ \E s \in StartSessions, v \in StreamAnswers : submit_response(s, v)
  \/ \E s \in StartSessions : ncons = 0 /\ attach_to_running_task(s)
  \/ \E c \in ConsumerIds : QueueGet(c)
  \/ \E c \in ConsumerIds : StopReading(c)

ReplaceSpec == Init /\ [][ReplaceNext]_vars

\* FlaggedSpec: the legacy endpoints next to one run of the session bridge.
\* One session id is started once with a v2 tool and answered through the
\* bridge, while /chat and flagged /submit_elicitation requests are served
\* by the legacy client.
FlaggedNext ==
  \/ \E s \in StartSessions, t \in AnswerTools :
        nruns = 0 /\ start_tool_task(s, t)
  \/ \E r \in RunIds : EnsureEnter(r)
  \/ \E r \in RunIds : ConnectOpen(r)
  \/ \E r \in RunIds : ConnectInit(r)
  \/ \E r \in RunIds : EnsureResume(r)
  \/ \E r \in RunIds : InvokeHandler(r)
  \/ \E r \in RunIds : HandlerResume(r)
  \/ \E r \in RunIds : CallReturns(r)
  \/ \E s \in StartSessions, v \in StreamAnswers : submit_response(s, v)
  \/ \E msg \in Messages : chat(msg)
  \/ v1_generator
  \/ \E responses \in AllResponses, merge \in BOOLEAN :
       submit_elicitation(responses, merge)
  \/ v1_submit_generator

FlaggedSpec == Init /\ [][FlaggedNext]_vars

\* ApprovalSpec: the two tools that verify an approval against auth_store,
\* next to the callback.  login_v2 is invoked and answered; the legacy
\* login is requested through /chat and verified through flagged
\* /submit_elicitation requests; callback requests carry any state.
ApprovalMessages == { << "login", "please" >> }

ApprovalNext ==
  \/ \E i \in LoginIds : login_v2(i)
  \/ \E i \in LoginIds : ElicitUrlAnswered(i)
  \/ \E i \in LoginIds : LoginResumes(i)
  \/ \E code \in CodeParams, state \in StateParams : oauth_callback(code, state)
  \/ \E msg \in ApprovalMessages : chat(msg)
  \/ v1_generator
  \/ \E responses \in AllResponses, merge \in BOOLEAN :
       submit_elicitation(responses, merge)
  \/ v1_submit_generator

ApprovalSpec == Init /\ [][ApprovalNext]_vars

\* LiveSpec: one session id started again and again, with its readers, under
\* the scheduling of the event loop: every task that can take its next step
\* takes it, the transport completes every connection attempt and every
\* call, and every registered unresolved slot gets a submit.
LiveNext ==
  \/ \E s \in StartSessions, t \in StreamTools : start_tool_task(s, t)
  \/ \E r \in RunIds : EnsureEnter(r)
  \/ \E r \in RunIds : ConnectOpen(r)
  \/ \E r \in RunIds : ConnectInit(r)
  \/ \E r \in RunIds : ConnectFail(r)
  \/ \E r \in RunIds : EnsureResume(r)
  \/ \E r \in RunIds : InvokeHandler(r)
  \/ \E r \in RunIds : HandlerResume(r)
  \/ \E r \in RunIds : CallReturns(r)
  \/ \E r \in RunIds : CallRaises(r)
  \/ \E s \in StartSessions, v \in StreamAnswers : submit_response(s, v)
  \/ \E s \in StartSessions : attach_to_running_task(s)
  \/ \E c \in ConsumerIds : QueueGet(c)
  \/ \E c \in ConsumerIds : StopReading(c)

\* a submit that answers the unresolved slot registered for session s
AnswerPending(s) ==
  \E v \in StreamAnswers : SlotPending(s) /\ submit_response(s, v)

LiveFairness ==
  /\ \A r \in RunIds :
       /\ WF_vars(EnsureEnter(r))
       /\ WF_vars(ConnectOpen(r))
       /\ WF_vars(ConnectInit(r))
       /\ WF_vars(EnsureResume(r))
       /\ WF_vars(InvokeHandler(r))
       /\ WF_vars(HandlerResume(r))
       /\ WF_vars(CallReturns(r))
  /\ \A s \in StartSessions : WF_vars(AnswerPending(s))
  /\ \A c \in ConsumerIds : WF_vars(QueueGet(c))

LiveSpec == Init /\ [][LiveNext]_vars /\ LiveFairness

\* ------------------------------------------------------------ properties --
\* consumer c is bound to a queue
Found(c) == consumers[c].pc # "idle" /\ consumers[c].q # None

TerminalCount(seq) == Cardinality({i \in DOMAIN seq : IsTerminal(seq[i])})

\* the place of item e in the publish order of session s (0 if absent)
PubIndex(s, e) ==
  IF \E i \in DOMAIN published[s] : published[s][i] = e
    THEN CHOOSE i \in DOMAIN published[s] : published[s][i] = e
    ELSE 0

\* the run made by the start that preceded the attach of consumer c
RunOf(c) ==
  CHOOSE r \in RunIds : /\ runs[r].pc # "idle"
                        /\ runs[r].sid = consumers[c].sid
                        /\ runs[r].epoch = consumers[c].epoch

\* C1 (as claimed): every consumer that read its queue up to the sentinel saw
\* exactly one terminal event, and saw it as the last event before the
\* sentinel.
C1_DrainSeesOneTerminal ==
  \A c \in ConsumerIds :
    (Found(c) /\ consumers[c].pc = "ended") =>
      LET seen == consumers[c].seen IN
        /\ TerminalCount(seen) = 1
        /\ Len(seen) >= 2
        /\ IsTerminal(seen[Len(seen) - 1])

\* C2 (as claimed): every started run ends, having published its terminal
\* event and the sentinel, and every consumer reading a queue sees the
\* stream end unless its caller stops reading.
C2_StartLeadsToStreamEnd ==
  /\ \A r \in RunIds : (runs[r].pc # "idle") ~> (runs[r].pc = "done")
  /\ \A c \in ConsumerIds :
       (consumers[c].pc = "reading") ~> (consumers[c].pc # "reading")

\* C3 (as claimed): a consumer attached after a start of its session never
\* gets 'Session not found', and the terminal event of the run of that start,
\* once published, was put on the queue the consumer reads.
C3_AttachAfterStartGetsTerminal ==
  \A c \in ConsumerIds :
    (consumers[c].pc # "idle" /\ consumers[c].epoch >= 1) =>
      /\ Found(c)
      /\ consumers[c].seen # << NotFoundEvent >>
      /\ runs[RunOf(c)].pc = "done" =>
           \E i \in DOMAIN enq[consumers[c].q] :
              /\ IsTerminal(enq[consumers[c].q][i])
              /\ enq[consumers[c].q][i].run = RunOf(c)

\* C7: a consumer attached to a session id that was never started has
\* yielded exactly the 'Session not found' error and has ended, and that
\* attach changed no queue, future or connection registry.
C7_AttachUnknownSession ==
  /\ [] (\A c \in ConsumerIds :
           (consumers[c].pc # "idle" /\ consumers[c].epoch = 0) =>
              /\ consumers[c].pc = "ended"
              /\ consumers[c].seen = << NotFoundEvent >>
              /\ consumers[c].q = None)
  /\ [][ \A s \in Sessions :
           (Epoch(s) = 0 /\ attach_to_running_task(s)) =>
              UNCHANGED << sessions, event_queues, submission_futures,
                           queues, futures >> ]_vars

\* C7 witness: an attach to a never-started session ended while another
\* session was started.
C7_Witness ==
  \E c \in ConsumerIds :
    /\ consumers[c].pc = "ended"
    /\ consumers[c].epoch = 0
    /\ \E s \in Sessions : s # consumers[c].sid /\ event_queues[s] # None

\* C8: the queue registered for a session holds only items published since
\* the session's latest start, and a consumer sees only items published
\* after the start that preceded its attach.
C8_RestartDropsBacklog ==
  /\ \A s \in Sessions :
       event_queues[s] # None =>
         \A i \in DOMAIN queues[event_queues[s]] :
            queues[event_queues[s]][i].epoch = Epoch(s)
  /\ \A c \in ConsumerIds :
       Found(c) =>
         \A i \in DOMAIN consumers[c].seen :
            consumers[c].seen[i].epoch >= consumers[c].epoch

\* C8 witness: a consumer attached after a restart has read an event while
\* the replaced queue of its session still holds unread items.
C8_Witness ==
  \E c \in ConsumerIds :
    /\ Found(c)
    /\ consumers[c].epoch = 2
    /\ consumers[c].seen # <<>>
    /\ \E q \in RunIds : /\ q # consumers[c].q
                         /\ runs[q].sid = consumers[c].sid
                         /\ queues[q] # <<>>

\* the items consumer c read are a contiguous part of the publish order
Contiguous(c) ==
  LET seen == consumers[c].seen
      pub == published[consumers[c].sid]
  IN seen = <<>> \/
     \E i \in 0..(Len(pub) - Len(seen)) :
        \A j \in DOMAIN seen : seen[j] = pub[i + j]

\* the items consumer c read are published items, in publish order, none
\* twice
InPublishOrder(c) ==
  LET seen == consumers[c].seen
      s == consumers[c].sid
  IN /\ \A j \in DOMAIN seen : PubIndex(s, seen[j]) > 0
     /\ \A j, k \in DOMAIN seen :
          j < k => PubIndex(s, seen[j]) < PubIndex(s, seen[k])

\* no other consumer is bound to the queue of consumer c
SoleReader(c) ==
  \A d \in ConsumerIds \ {c} : ~Found(d) \/ consumers[d].q # consumers[c].q

C10_SentinelIsLast ==
  \A q \in RunIds :
    \A i \in DOMAIN enq[q] : i < Len(enq[q]) => enq[q][i].type # "None"

\* C4: in no step does a handler whose future is unresolved return, nor its
\* run end; a submit on an unresolved slot stores its value V in it; and a
\* handler that returns leaves its run in the call with, for a form
\* interruption, the reply accept(V) added.
C4_SlotBlocksThenDelivers ==
  [][ /\ \A r \in RunIds :
           (runs[r].hpc = "waiting" /\ futures[runs[r].fut] = "pending") =>
              /\ runs'[r].hpc = "waiting"
              /\ runs'[r].pc = "calling"
              /\ runs'[r].fut = runs[r].fut
      /\ \A s \in Sessions, v \in Answers :
           (SlotPending(s) /\ submit_response(s, v)) =>
              futures'[submission_futures[s]] = v
      /\ \A r \in RunIds :
           (runs[r].hpc = "waiting" /\ runs'[r].hpc # "waiting") =>
              /\ futures[runs[r].fut] \in Answers
              /\ runs'[r].pc = "calling"
              /\ runs'[r].elicits = runs[r].elicits + 1
              /\ NextKind(r) = "form" =>
                   runs'[r].replies =
                     Append(runs[r].replies,
                            [action |-> "accept",
                             content |-> futures[runs[r].fut]])
    ]_vars

\* C4 witness: the handler of a form interruption has returned an acceptance
\* that carries a submitted answer.
C4_Witness ==
  \E r \in RunIds :
    /\ runs[r].pc = "calling"
    /\ runs[r].tool = "create_ticket_v2"
    /\ Len(runs[r].replies) = 1
    /\ runs[r].replies[1].content \in Answers

\* C5: a submit for a session without a registered slot does not raise and
\* changes no connection, queue, queue registry, slot registry or future.
C5_SubmitWithoutSlotIsNoop ==
  [][ \A s \in Sessions :
        (submission_futures[s] = NoFuture
           /\ \E v \in Answers : submit_response(s, v)) =>
          /\ diag' = "no_slot"
          /\ UNCHANGED << sessions, event_queues, queues,
                          submission_futures, futures >>
    ]_vars

\* C5 witness: a submit was made for a started session that has no slot
\* while its queue holds items.
C5_Witness ==
  /\ diag = "no_slot"
  /\ \E s \in Sessions :
       /\ submission_futures[s] = NoFuture
       /\ event_queues[s] # None
       /\ queues[event_queues[s]] # <<>>

\* C6: a submit for a session whose registered slot is resolved does not
\* raise and changes no future; a resolved future keeps its value until its
\* handler resumes, and the handler of a form interruption replies with it.
C6_SlotIsWriteOnce ==
  [][ /\ \A s \in Sessions :
           (submission_futures[s] # NoFuture
              /\ futures[submission_futures[s]] \in Answers
              /\ \E v \in Answers : submit_response(s, v)) =>
             /\ diag' = "already_done"
             /\ futures' = futures
      /\ \A r \in RunIds :
           (runs[r].hpc = "waiting" /\ futures[runs[r].fut] \in Answers) =>
              \/ /\ runs'[r].hpc = "waiting"
                 /\ futures'[runs[r].fut] = futures[runs[r].fut]
              \/ /\ runs'[r].hpc = "none"
                 /\ NextKind(r) = "form" =>
                      runs'[r].replies[Len(runs'[r].replies)].content
                        = futures[runs[r].fut]
    ]_vars

\* C6 witness: a second submit met a slot that another submit had resolved
\* and whose handler is still suspended.
C6_Witness ==
  /\ diag = "already_done"
  /\ \E r \in RunIds :
       /\ runs[r].hpc = "waiting"
       /\ futures[runs[r].fut] \in Answers
       /\ submission_futures[runs[r].sid] = runs[r].fut

\* the items run r published, in order
RunItems(r) ==
  SelectSeq(published[runs[r].sid], LAMBDA e : e.run = r)

\* the number of items of seq that have a type of types
TypeCount(seq, types) ==
  Cardinality({i \in DOMAIN seq : seq[i].type \in types})

\* C11: a run whose connection could not be obtained ends without sending
\* call_tool, having published exactly one Error event and then the sentinel
\* and nothing else; a run whose call raised ends having published exactly
\* one Error event, no Result, and the sentinel right after the Error.
C11_FailurePublishesOneError ==
  /\ [] (\A r \in RunIds :
           LET it == RunItems(r)
               n == Len(it)
           IN (runs[r].pc = "done" /\ TypeCount(it, {"result"}) = 0) =>
                 /\ n >= 2
                 /\ it[n].type = "None"
                 /\ it[n - 1].type = "error"
                 /\ TypeCount(it, {"error"}) = 1
                 /\ TypeCount(it, {"None"}) = 1
                 /\ it[n - 1].content = "Failed to get/create session" =>
                      n = 2)
  /\ [][ \A r \in RunIds :
           /\ (runs[r].pc = "waitready" /\ runs'[r].pc # "waitready"
                  /\ sessions[runs[r].sid] = "absent") =>
                 /\ runs'[r].pc = "done"
                 /\ RunItems(r)' =
                      << Event("error", "Failed to get/create session", r, 0,
                               Epoch(runs[r].sid)),
                         Sentinel(r, Epoch(runs[r].sid)) >>
           /\ CallRaises(r) =>
                 /\ runs'[r].pc = "done"
                 /\ TypeCount(RunItems(r)', {"result"}) = 0
                 /\ TypeCount(RunItems(r)', {"error"}) = 1
         ]_vars

\* C11 witness: one run ended on a connection failure and another on a call
\* that raised after its interruption was answered.
C11_Witness ==
  \E r1, r2 \in RunIds :
    /\ runs[r1].pc = "done"
    /\ Len(RunItems(r1)) = 2
    /\ RunItems(r1)[1].content = "Failed to get/create session"
    /\ runs[r2].pc = "done"
    /\ Len(RunItems(r2)) = 3
    /\ RunItems(r2)[2].content = "Error executing tool"

\* run r was started and has not ended
InFlight(r) == runs[r].pc \notin {"idle", "done"}

\* C12 (as claimed): no two runs of one session id are in flight at the same
\* time, and no two handlers of one session id wait for an answer at the same
\* time.
C12_OneInvocationPerSession ==
  \A r1, r2 \in RunIds :
    (r1 # r2 /\ runs[r1].sid = runs[r2].sid) =>
      /\ ~(InFlight(r1) /\ InFlight(r2))
      /\ ~(runs[r1].hpc = "waiting" /\ runs[r2].hpc = "waiting")

\* the connection attempts in progress for session id s
Attempts(s) ==
  {c \in CallerIds : SidOf(c) = s /\ conn[c] \in {"opening", "initializing"}}

\* C13: at most one connection attempt is in progress per session id, and
\* no step starts an attempt for a session id that has one in progress.
C13_OneAttemptPerSession ==
  /\ [] (\A s \in AllSessions : Cardinality(Attempts(s)) <= 1)
  /\ [][ \A s \in AllSessions :
           Attempts(s) # {} =>
             \A c \in CallerIds :
                (SidOf(c) = s /\ conn[c] = "none") => conn'[c] = "none"
       ]_vars

\* C13 witness: while the attempt for a session id is in progress, two more
\* callers ask for a connection: a run of the same session id and
\* list_tools.
C13_Witness ==
  \E r1, r2 \in RunIds :
    /\ r1 # r2
    /\ runs[r1].sid = runs[r2].sid
    /\ r1 \in Attempts(runs[r1].sid)
    /\ runs[r2].pc = "ensure"
    /\ lister.pc = "ensure"

\* C14 (as claimed): a run that was waiting in get_or_create_session when the
\* connection setup of its session failed leaves the wait with a connection
\* failure (it ends) and starts no connection attempt of its own.
C14_WaitersGetFailure ==
  [][ \A r \in RunIds :
        (runs[r].sawfail /\ runs[r].pc = "ensure" /\ runs'[r].pc # "ensure") =>
           /\ runs'[r].pc = "done"
           /\ conn'[r] = "none"
    ]_vars

\* C15 (as claimed): a run that asks for the connection of a session that has
\* a ready handle can take that step at once, also while the connection
\* attempt of another session id is in progress (states in which the caller
\* that connected the run's own session has not resumed yet are left out).
C15_ReadyHandleReturnsAtOnce ==
  \A r \in RunIds :
    ( /\ runs[r].pc = "ensure"
      /\ sessions[runs[r].sid] = "ready"
      /\ connect_lock # None => SidOf(connect_lock) # runs[r].sid ) =>
       ENABLED EnsureEnter(r)

\* C16 (as claimed): the registry of connections never holds a handle whose
\* initialization has not completed.
C16_RegisteredOnlyWhenInitialized ==
  \A s \in AllSessions : sessions[s] # "registered"

\* C17: the step in which a connection loop exits changes no queue entry, no
\* queue content and no slot, and no handle of another session id; and no
\* step removes a queue entry that a start registered.
C17_ExitKeepsChannel ==
  /\ [][ \A c \in CallerIds :
           (conn[c] # "exited" /\ conn'[c] = "exited") =>
              /\ event_queues' = event_queues
              /\ queues' = queues
              /\ submission_futures' = submission_futures
              /\ sessions'[SidOf(c)] = "absent"
              /\ \A s \in AllSessions \ {SidOf(c)} :
                    sessions'[s] = sessions[s]
       ]_vars
  /\ [][ \A s \in AllSessions :
           event_queues[s] # None => event_queues'[s] # None ]_vars

\* C17 witness: the connection of a session ended and its handle is gone
\* while the session's queue still holds items and another session id keeps
\* its ready handle.
C17_Witness ==
  \E r \in RunIds :
    /\ conn[r] = "exited"
    /\ sessions[runs[r].sid] = "absent"
    /\ event_queues[runs[r].sid] # None
    /\ queues[event_queues[runs[r].sid]] # <<>>
    /\ sessions[ListerSession] = "ready"

\* C18: a connection setup that fails leaves its session without a handle;
\* a handle in the registry always belongs to a connection loop that is
\* running; and a run that asks for the connection of a session without a
\* handle starts a new attempt.
C18_FailedSetupIsRetried ==
  /\ [] (\A s \in AllSessions :
           sessions[s] # "absent" =>
             \E c \in CallerIds :
                SidOf(c) = s /\ conn[c] \in {"initializing", "alive"})
  /\ [][ /\ \A c \in CallerIds :
              (c \in Attempts(SidOf(c)) /\ conn'[c] = "exited") =>
                 sessions'[SidOf(c)] = "absent"
         /\ \A r \in RunIds :
              (runs[r].pc = "ensure" /\ runs'[r].pc # "ensure"
                 /\ sessions[runs[r].sid] = "absent") =>
                 /\ runs'[r].pc = "waitready"
                 /\ conn'[r] = "opening"
       ]_vars

\* C18 witness: the setup spawned by one run failed, that run reported the
\* failure, and another run of the same session id has a live connection.
C18_Witness ==
  \E r1, r2 \in RunIds :
    /\ runs[r1].sid = runs[r2].sid
    /\ conn[r1] = "exited"
    /\ runs[r1].pc = "done"
    /\ Len(RunItems(r1)) = 2
    /\ RunItems(r1)[1].content = "Failed to get/create session"
    /\ conn[r2] = "alive"
    /\ sessions[runs[r2].sid] = "ready"

\* C19 (as claimed): a handler invoked for a session id that has no queue
\* ends by raising, and leaves no unresolved slot registered for the
\* session id.
C19_HandlerWithoutChannelFails ==
  lister.handler # "none" =>
    /\ lister.handler = "raised"
    /\ ~SlotPending(ListerSession)

\* C20: the reply a handler returns is an acceptance; for a url interruption
\* it carries no content, whatever value the future holds, and for a form
\* interruption its content is the value the future holds.
C20_ReplyDependsOnKind ==
  [][ \A r \in RunIds :
        (runs[r].hpc = "waiting" /\ runs'[r].hpc = "none") =>
           LET reply == runs'[r].replies[Len(runs'[r].replies)]
               answer == futures[runs[r].fut]
           IN /\ Len(runs'[r].replies) = Len(runs[r].replies) + 1
              /\ answer \in Answers
              /\ reply.action = "accept"
              /\ NextKind(r) = "url" => reply.content = "NoContent"
              /\ NextKind(r) = "form" => reply.content = answer
    ]_vars

\* C20 witness: a url interruption got a reply without content and a form
\* interruption a reply with the second answer value.
C20_Witness ==
  \E r1, r2 \in RunIds :
    /\ runs[r1].tool = "login_v2"
    /\ Len(runs[r1].replies) = 1
    /\ runs[r1].replies[1].content = "NoContent"
    /\ runs[r2].tool = "create_ticket_v2"
    /\ Len(runs[r2].replies) = 1
    /\ runs[r2].replies[1].content = "a2"

\* C21: when a handler returns its reply (it read the result of the future
\* it awaited), no future is registered for its session id, whichever
\* handler registered the last one.
C21_ReplyLeavesNoSlot ==
  [][ \A r \in RunIds :
        (runs[r].hpc = "waiting" /\ runs'[r].hpc = "none") =>
           /\ futures[runs[r].fut] \in Answers
           /\ Len(runs'[r].replies) = Len(runs[r].replies) + 1
           /\ submission_futures'[runs[r].sid] = NoFuture
           /\ ~SlotPending(runs[r].sid)'
    ]_vars

\* C21 witness: a handler of a session id started twice returned its reply
\* while the other run's handler, which registered its future later, still
\* waits; no future is registered for the session id.
C21_Witness ==
  \E r1, r2 \in RunIds :
    /\ r1 # r2
    /\ runs[r1].sid = runs[r2].sid
    /\ Len(runs[r1].replies) = 1
    /\ runs[r1].hpc = "none"
    /\ runs[r2].hpc = "waiting"
    /\ submission_futures[runs[r1].sid] = NoFuture

\* C22: a start can be made in every state, whatever the connection
\* attempts, calls and handlers in progress are doing, and the step that
\* makes it only registers an empty queue and creates the task, which has
\* not asked for its connection yet: connections, the lock, futures and
\* the other runs are as before.
C22_StartNeverBlocks ==
  /\ [] (\A s \in StartSessions, t \in StreamTools :
            nruns < MaxRuns => ENABLED start_tool_task(s, t))
  /\ [][ nruns' # nruns =>
           /\ nruns' = nruns + 1
           /\ runs'[nruns'].pc = "ensure"
           /\ event_queues'[runs'[nruns'].sid] # None
           /\ queues'[event_queues'[runs'[nruns'].sid]] = <<>>
           /\ \A r \in RunIds \ {nruns'} : runs'[r] = runs[r]
           /\ UNCHANGED << sessions, connect_lock, conn, ready, futures,
                           submission_futures, lister >>
       ]_vars

\* C22 witness: a start has returned, its run has a fresh empty queue and
\* has not asked for its connection, and the connection attempt of an
\* earlier run of the session id is still opening, with connect_lock held.
C22_Witness ==
  \E r1, r2 \in RunIds :
    /\ r1 < r2
    /\ runs[r1].sid = runs[r2].sid
    /\ connect_lock = r1
    /\ conn[r1] = "opening"
    /\ runs[r2].pc = "ensure"
    /\ event_queues[runs[r2].sid] = r2
    /\ queues[r2] = <<>>

\* C23 (as claimed): a run that is about to ask for the connection of its
\* session id can do so whatever the connection setups and calls of the
\* other session ids are doing: it is not held up by a setup of another
\* session id that has not completed.
C23_SessionsRunIndependently ==
  \A r \in RunIds :
    ( /\ runs[r].pc = "ensure"
      /\ \A c \in RunIds :
            (runs[c].pc # "idle" /\ runs[c].sid = runs[r].sid) =>
               (connect_lock # c /\ conn[c] \notin {"opening", "initializing"})
    ) => ENABLED EnsureEnter(r)

\* what the manager holds for session id s: its handle, its registered
\* queue, the content of every queue made for it, its registered future
\* and the state of every future made by its handlers
SessionData(s) ==
  [handle |-> sessions[s],
   queue |-> event_queues[s],
   items |-> [q \in {x \in RunIds : runs[x].pc # "idle" /\ runs[x].sid = s}
                |-> queues[q]],
   slot |-> submission_futures[s],
   answers |-> [f \in {x \in FutureIds : runs[x[1]].pc # "idle"
                                          /\ runs[x[1]].sid = s}
                  |-> futures[f]]]

\* a step made for session id s: a start or a submit for s, or a step of a
\* handler, a call, a terminal publication or a connection of a run of s
StepOf(s) ==
  \/ \E t \in StreamTools : start_tool_task(s, t)
  \/ \E v \in StreamAnswers : submit_response(s, v)
  \/ \E r \in RunIds :
       /\ runs[r].pc # "idle"
       /\ runs[r].sid = s
       /\ \/ EnsureEnter(r) \/ ConnectOpen(r) \/ ConnectInit(r)
          \/ ConnectFail(r) \/ ConnectionLost(r) \/ EnsureResume(r)
          \/ InvokeHandler(r) \/ HandlerResume(r)
          \/ CallReturns(r) \/ CallRaises(r)

\* C24: a step made for one session id leaves the handle, the queues and
\* their content, the registered future and the futures of every other
\* session id as they were; and every item ever put on a queue was
\* published by a run of the session id the queue was made for.
C24_OtherSessionsUntouched ==
  /\ [] (\A q \in RunIds : \A i \in 1..Len(enq[q]) :
            runs[enq[q][i].run].sid = runs[q].sid)
  /\ [][ \A s1, s2 \in Sessions :
           (s1 # s2 /\ StepOf(s1)) => SessionData(s2)' = SessionData(s2)
       ]_vars

\* C24 witness: while a handler of one session id waits on an unresolved
\* registered future, with its elicitation event unread in its queue and
\* its connection ready, a run of the other session id has had its answer,
\* published its result and sentinel and then lost its connection.
C24_Witness ==
  \E r1, r2 \in RunIds :
    /\ runs[r1].sid # runs[r2].sid
    /\ runs[r1].hpc = "waiting"
    /\ SlotPending(runs[r1].sid)
    /\ sessions[runs[r1].sid] = "ready"
    /\ Len(queues[event_queues[runs[r1].sid]]) = 1
    /\ runs[r2].pc = "done"
    /\ Len(enq[r2]) = 3
    /\ enq[r2][2].type = "result"
    /\ sessions[runs[r2].sid] = "absent"
    /\ conn[r2] = "exited"

\* the items put on queue q that no generator bound to q has read, in the
\* order they were put
Unread(q) ==
  SelectSeq(enq[q],
            LAMBDA e : \A c \in ConsumerIds :
                          consumers[c].q = q =>
                             \A i \in 1..Len(consumers[c].seen) :
                                consumers[c].seen[i] # e)

\* C25: a generator that stops reading changes nothing but itself (the
\* runs, the queues and what was published are as before); a queue holds
\* exactly the items put on it that no generator has read, in publish
\* order; a generator that reads gets the oldest of them; and no item is
\* read by two generators.
C25_LaterAttachGetsUnread ==
  /\ [] (\A q \in RunIds : queues[q] = Unread(q))
  /\ [] (\A c, d \in ConsumerIds :
            (c # d /\ consumers[c].q # None /\ consumers[d].q # None) =>
               \A i \in 1..Len(consumers[c].seen) :
                 \A j \in 1..Len(consumers[d].seen) :
                    consumers[c].seen[i] # consumers[d].seen[j])
  /\ [][ \A c \in ConsumerIds :
           /\ (consumers[c].pc = "reading" /\ consumers'[c].pc = "stopped") =>
                UNCHANGED << sessions, event_queues, submission_futures,
                             connect_lock, queues, futures, runs, nruns,
                             conn, ready, enq, published >>
           /\ (consumers[c].pc = "reading"
                 /\ Len(consumers'[c].seen) > Len(consumers[c].seen)) =>
                /\ consumers'[c].seen =
                     Append(consumers[c].seen, Unread(consumers[c].q)[1])
                /\ consumers'[c].q = consumers[c].q
       ]_vars

\* C25 witness: the first generator read the elicitation event and stopped;
\* the run published its result and sentinel, and a generator attached
\* after the first one to the same queue read exactly these two.
C25_Witness ==
  \E c, d \in ConsumerIds :
    /\ c < d
    /\ consumers[c].q # None
    /\ consumers[d].q = consumers[c].q
    /\ consumers[c].pc = "stopped"
    /\ Len(consumers[c].seen) = 1
    /\ consumers[c].seen[1].type = "elicitation"
    /\ consumers[d].pc = "ended"
    /\ Len(consumers[d].seen) = 2
    /\ consumers[d].seen[1].type = "result"
    /\ consumers[d].seen[2].type = "None"

\* C26: a run of the one-form tool publishes at most one elicitation event,
\* of kind form, and nothing but it while its handler waits; a future goes
\* from unresolved to resolved only by a submit, with the submitted value;
\* the run publishes its result only after its handler returned a reply
\* carrying the value of its future, the result is built from that value,
\* it comes second, after the elicitation event, and the sentinel follows
\* it as the last item.
C26_OneFormScenario ==
  /\ [] (\A r \in RunIds :
            (runs[r].pc # "idle" /\ runs[r].tool = "create_ticket_v2") =>
               LET it == RunItems(r) IN
                 /\ TypeCount(it, {"elicitation"}) <= 1
                 /\ TypeCount(it, {"result"}) <= 1
                 /\ runs[r].hpc = "waiting" =>
                      /\ Len(it) = 1
                      /\ it[1].type = "elicitation"
                 /\ \A i \in 1..Len(it) :
                      it[i].type = "result" =>
                         /\ i = 2
                         /\ it[1].type = "elicitation"
                         /\ it[1].content = "form"
                         /\ \E v \in Answers :
                               it[2].content = << "create_ticket_v2", << v >> >>
                         /\ Len(it) = 3
                         /\ it[3].type = "None")
  /\ [][ /\ \A f \in FutureIds :
              (futures[f] = "pending" /\ futures'[f] # "pending") =>
                 \E s \in Sessions, v \in Answers :
                    /\ submit_response(s, v)
                    /\ submission_futures[s] = f
                    /\ futures'[f] = v
         /\ \A r \in RunIds :
              ( /\ runs[r].tool = "create_ticket_v2"
                /\ TypeCount(RunItems(r)', {"result"})
                      > TypeCount(RunItems(r), {"result"}) ) =>
                 /\ Len(runs[r].replies) = 1
                 /\ runs[r].replies[1].content \in Answers
                 /\ RunItems(r)'[Len(RunItems(r)') - 1].content =
                       << "create_ticket_v2", << runs[r].replies[1].content >> >>
       ]_vars

\* C26 witness: a run of the one-form tool ended having published the
\* elicitation event of kind form, the result made from the second answer
\* value, and the sentinel.
C26_Witness ==
  \E r \in RunIds :
    /\ runs[r].pc = "done"
    /\ runs[r].tool = "create_ticket_v2"
    /\ Len(RunItems(r)) = 3
    /\ RunItems(r)[1].type = "elicitation"
    /\ RunItems(r)[1].content = "form"
    /\ RunItems(r)[2].type = "result"
    /\ RunItems(r)[2].content = << "create_ticket_v2", << "a2" >> >>
    /\ RunItems(r)[3].type = "None"

ReturnedType(ret, type) ==
  /\ ret.json
  /\ ret.obj.t = "dict"
  /\ Get(ret.obj.v, << "type" >>, PyNone).t = "str"
  /\ Get(ret.obj.v, << "type" >>, PyNone).v = << type >>

Mentions(text, part) ==
  \E n \in 1..Len(text) : \E m \in 1..Len(text[n].s) : text[n].s[m] = part

NoKeyword(msg) ==
  LET m == LowerMessage(msg) IN
    /\ ~Has(m, "ticket") /\ ~Has(m, "login") /\ ~Has(m, "appointment")
    /\ ~Has(m, "debug")
    /\ ~HasPhrase(m, "tickt", "v2") /\ ~HasPhrase(m, "book", "v2")

\* C30 (as claimed): a /chat whose message has no keyword calls
\* simple_tool with the message, and when the call has returned the
\* response is a single item of type "message" whose content is
\* 'Processed: ' followed by the message.
C30_NoKeywordGivesMessage ==
  ( /\ legacy.pc = "done"
    /\ legacy.outcome = "tool"
    /\ "message" \in DOMAIN legacy.tool_args
    /\ NoKeyword(legacy.message) ) =>
      /\ legacy.tool_name = "simple_tool"
      /\ legacy.tool_args.message = legacy.message
      /\ Len(legacy.stream) = 1
      /\ legacy.stream[1].content
           = << Raw(<< "Processed: " >> \o legacy.message) >>
      /\ legacy.stream[1].type = "message"


\* the futures of run r that are not in their initial state
OpenFutures(r) == {k \in 1..MaxElicit : futures[<< r, k >>] # "none"}

C32_SlotWhileHandlerWaits ==
  \A r \in RunIds :
    ( /\ runs[r].hpc = "waiting"
      /\ \E i \in DOMAIN published[runs[r].sid] :
            /\ published[runs[r].sid][i].type = "elicitation"
            /\ published[runs[r].sid][i].run = r
            /\ published[runs[r].sid][i].k = runs[r].elicits + 1 ) =>
       submission_futures[runs[r].sid] # NoFuture

\* C33: a caller of get_or_create_session that gets a handle (a run that
\* goes on to call_tool, list_tools that goes on to list) gets one whose
\* initialization has completed; and whenever the registry holds a handle
\* that is not initialized, connect_lock is held by the caller that started
\* the attempt for that session id, which waits for ready_event.
C33_CallersGetInitializedHandle ==
  /\ [] (\A s \in AllSessions :
           sessions[s] = "registered" =>
             /\ connect_lock # None
             /\ SidOf(connect_lock) = s
             /\ conn[connect_lock] = "initializing"
             /\ ~ready[connect_lock]
             /\ \A r \in RunIds : ~ENABLED EnsureEnter(r)
             /\ ~ENABLED ListerEnter)
  /\ [][ /\ \A r \in RunIds :
              (runs[r].pc \in {"ensure", "waitready"}
                 /\ runs'[r].pc = "calling") =>
                /\ sessions[runs[r].sid] = "ready"
                /\ sessions'[runs[r].sid] = "ready"
         /\ (lister.pc \in {"ensure", "waitready"}
               /\ lister'.pc = "listing") =>
                /\ sessions[ListerSession] = "ready"
                /\ sessions'[ListerSession] = "ready"
       ]_vars

\* C33 witness: a run got the handle another run's attempt had stored and
\* initialized, while the attempt of list_tools has stored a handle it has
\* not initialized yet and a third caller is waiting for connect_lock.
C33_Witness ==
  \E r1, r2 \in RunIds :
    /\ r1 # r2
    /\ runs[r1].sid = runs[r2].sid
    /\ conn[r1] = "alive"
    /\ conn[r2] = "none"
    /\ runs[r2].pc = "calling"
    /\ sessions[ListerSession] = "registered"
    /\ connect_lock = Lister

\* the run of session id s is over and its stream was read to the end: no
\* run of s is in flight, the queue registered for s is empty, and a
\* consumer of that queue ended on the sentinel
Drained(s) ==
  /\ event_queues[s] # None
  /\ \A r \in RunIds : runs[r].sid = s => ~InFlight(r)
  /\ queues[event_queues[s]] = <<>>
  /\ \E d \in ConsumerIds :
        /\ consumers[d].q = event_queues[s]
        /\ consumers[d].pc = "ended"
        /\ consumers[d].seen[Len(consumers[d].seen)].type = "None"

\* consumer c is bound to a queue that another consumer read to the
\* sentinel and on which no run in flight publishes; it has yielded
\* nothing, has not ended and cannot take an item
Late(c) ==
  /\ Found(c)
  /\ consumers[c].pc \in {"reading", "stopped"}
  /\ consumers[c].seen = <<>>
  /\ queues[consumers[c].q] = <<>>
  /\ \E d \in ConsumerIds \ {c} :
        /\ consumers[d].q = consumers[c].q
        /\ consumers[d].pc = "ended"
        /\ consumers[d].seen[Len(consumers[d].seen)].type = "None"
  /\ event_queues[consumers[c].sid] # None
  /\ event_queues[consumers[c].sid] = consumers[c].q =>
        \A r \in RunIds : runs[r].sid = consumers[c].sid => ~InFlight(r)
  /\ ~ENABLED QueueGet(c)

\* C34: an attach made when the run of its session id is over and the
\* sentinel was consumed binds the registered queue, which is empty; and
\* from then on, in every step, that consumer has yielded nothing and has
\* not ended, its queue is empty and a queue stays registered for the
\* session id (the caller can only stop reading).
C34_LateAttachNeverEnds ==
  [][ \A c \in ConsumerIds :
        /\ (consumers[c].pc = "idle" /\ consumers'[c].pc # "idle"
              /\ Drained(consumers'[c].sid)) =>
             /\ Late(c)'
             /\ consumers'[c].pc = "reading"
             /\ consumers'[c].q = event_queues[consumers'[c].sid]
        /\ Late(c) => Late(c)'
    ]_vars

\* C34 witness: a consumer that attached after another one is bound to the
\* queue on which that one ended, has yielded nothing and is still reading,
\* while the run that made the queue is over and nothing was put since.
C34_Witness ==
  \E c, d \in ConsumerIds :
    /\ d < c
    /\ Drained(consumers[c].sid)
    /\ consumers[d].q = consumers[c].q
    /\ consumers[d].pc = "ended"
    /\ Len(consumers[d].seen) = Len(enq[consumers[c].q])
    /\ Late(c)
    /\ consumers[c].pc = "reading"
    /\ consumers[c].epoch = 1

\* the consumers bound to queue q
Readers(q) == {c \in ConsumerIds : Found(c) /\ consumers[c].q = q}

\* a and b are the same publication
SameItem(a, b) == a.run = b.run /\ a.k = b.k /\ a.type = b.type

\* the number of consumers of queue q that yielded or read item e
Deliveries(q, e) ==
  Cardinality({c \in Readers(q) :
                 \E j \in DOMAIN consumers[c].seen :
                    SameItem(consumers[c].seen[j], e)})

\* C35: every item put on a queue is either still in the queue or was
\* taken by exactly one of the consumers bound to it, never by two; a
\* consumer ends only on a sentinel it took, so of the consumers of a queue
\* no more end than sentinels were put on it, and the step in which one
\* consumer takes an item or ends leaves every other consumer as it was.
C35_EachItemToOneReader ==
  /\ [] (\A q \in RunIds :
           /\ \A i \in DOMAIN enq[q] :
                Deliveries(q, enq[q][i])
                  + Cardinality({j \in DOMAIN queues[q] :
                                   SameItem(queues[q][j], enq[q][i])}) = 1
           /\ \A c \in Readers(q) :
                /\ \A j \in DOMAIN consumers[c].seen :
                     /\ \E i \in DOMAIN enq[q] :
                           SameItem(enq[q][i], consumers[c].seen[j])
                     /\ consumers[c].seen[j].type = "None" =>
                           j = Len(consumers[c].seen)
                /\ consumers[c].pc = "ended" <=>
                     /\ consumers[c].seen # <<>>
                     /\ consumers[c].seen[Len(consumers[c].seen)].type = "None"
           /\ Cardinality({c \in Readers(q) : consumers[c].pc = "ended"})
                <= TypeCount(enq[q], {"None"}))
  /\ [][ \A c \in ConsumerIds :
           QueueGet(c) =>
             \A d \in ConsumerIds \ {c} : consumers'[d] = consumers[d]
       ]_vars

\* C35 witness: two consumers were bound to the queue of a run that is
\* over; each took some of its items, one of them took the only sentinel
\* and ended, and the other is still reading the empty queue.
C35_Witness ==
  \E c, d \in ConsumerIds :
    /\ c # d
    /\ Found(c) /\ Found(d)
    /\ consumers[c].q = consumers[d].q
    /\ consumers[c].pc = "ended"
    /\ consumers[d].pc = "reading"
    /\ consumers[d].seen # <<>>
    /\ Len(consumers[c].seen) >= 2
    /\ queues[consumers[c].q] = <<>>
    /\ TypeCount(enq[consumers[c].q], {"None"}) = 1
    /\ Len(consumers[c].seen) + Len(consumers[d].seen)
         = Len(enq[consumers[c].q])

\* queue q was registered by a start and another start of the session id
\* has replaced it
Replaced(q) == runs[q].pc # "idle" /\ event_queues[runs[q].sid] # q

\* C36: the items a step publishes for a session id are put, in order, at
\* the end of the queue registered for the session id in that step,
\* whichever run publishes them, and no other queue changes; so a replaced
\* queue never gets another item (the run that made it puts its later
\* events, its terminal event and its sentinel on the queue of the later
\* start), and what a consumer bound to a replaced queue has taken and can
\* still take is what was put before the replacement.
C36_PublishToRegisteredQueue ==
  /\ [][ \A s \in Sessions :
           published'[s] # published[s] =>
             LET q == event_queues[s]
                 n == Len(published'[s]) - Len(published[s])
             IN /\ q # None
                /\ event_queues'[s] = q
                /\ n >= 1
                /\ Len(enq'[q]) = Len(enq[q]) + n
                /\ Len(queues'[q]) = Len(queues[q]) + n
                /\ \A i \in 1..n :
                      /\ SameItem(enq'[q][Len(enq[q]) + i],
                                  published'[s][Len(published[s]) + i])
                      /\ SameItem(queues'[q][Len(queues[q]) + i],
                                  published'[s][Len(published[s]) + i])
                /\ \A x \in RunIds \ {q} :
                      enq'[x] = enq[x] /\ queues'[x] = queues[x]
       ]_vars
  /\ [][ \A q \in RunIds :
           Replaced(q) =>
             /\ Replaced(q)'
             /\ enq'[q] = enq[q]
             /\ Len(queues'[q]) <= Len(queues[q])
       ]_vars

\* C36 witness: a run was replaced while its handler waited, then ended;
\* its result and its sentinel are on the queue of the later start, and the
\* consumer bound to the replaced queue, which took the run's elicitation
\* event, is reading an empty queue on which no sentinel was ever put.
C36_Witness ==
  \E r, q \in RunIds, c \in ConsumerIds :
    /\ r # q
    /\ runs[r].sid = runs[q].sid
    /\ Replaced(r)
    /\ event_queues[runs[r].sid] = q
    /\ runs[r].pc = "done"
    /\ \E i, j \in DOMAIN enq[q] :
          /\ i < j
          /\ enq[q][i].run = r /\ enq[q][i].type = "result"
          /\ enq[q][j].run = r /\ enq[q][j].type = "None"
    /\ Found(c)
    /\ consumers[c].q = r
    /\ consumers[c].pc = "reading"
    /\ Len(consumers[c].seen) = 1
    /\ consumers[c].seen[1].type = "elicitation"
    /\ queues[r] = <<>>
    /\ TypeCount(enq[r], {"None"}) = 0

\* C37: a submit stores its value only in a future that is registered and
\* unresolved when it is made, registers no future and changes no run; made
\* while no future is registered it is dropped.  The handler
\* invoked afterwards registers a new, unresolved future and waits; it
\* stays waiting until a submit made while that future is registered and
\* unresolved stores its value in it, and that value is the content of the
\* reply of a form interruption.
C37_EarlyAnswerIsDropped ==
  [][ /\ diag' # NoDiag =>
           /\ submission_futures' = submission_futures
           /\ runs' = runs
           /\ \A f \in FutureIds :
                 futures'[f] # futures[f] =>
                    /\ futures[f] = "pending"
                    /\ \E s \in DOMAIN submission_futures :
                          submission_futures[s] = f
           /\ (\A s \in DOMAIN submission_futures :
                  submission_futures[s] = NoFuture) =>
                 (diag' = "no_slot" /\ futures' = futures)
      /\ \A r \in RunIds :
           (runs[r].hpc = "none" /\ runs'[r].hpc = "waiting") =>
              /\ futures[runs'[r].fut] = "none"
              /\ futures'[runs'[r].fut] = "pending"
              /\ submission_futures'[runs[r].sid] = runs'[r].fut
      /\ \A r \in RunIds :
           (runs[r].hpc = "waiting" /\ futures[runs[r].fut] = "pending") =>
              /\ runs'[r].hpc = "waiting"
              /\ futures'[runs[r].fut] # "pending" =>
                   /\ diag' = "set"
                   /\ submission_futures[runs[r].sid] = runs[r].fut
                   /\ futures'[runs[r].fut] \in Answers
                   /\ runs' = runs
      /\ \A r \in RunIds :
           (runs[r].hpc = "waiting" /\ runs'[r].hpc = "none"
              /\ NextKind(r) = "form") =>
              /\ futures[runs[r].fut] \in Answers
              /\ runs'[r].replies[Len(runs'[r].replies)].content
                   = futures[runs[r].fut]
    ]_vars

\* C37 witness: a submit was just dropped for a session id whose call is in
\* progress and has raised no interruption yet; no future holds a value.
C37_Witness ==
  /\ diag = "no_slot"
  /\ \A f \in FutureIds : futures[f] = "none"
  /\ \E r \in RunIds :
       /\ runs[r].pc = "calling"
       /\ runs[r].hpc = "none"
       /\ runs[r].elicits = 0
       /\ submission_futures[runs[r].sid] = NoFuture
       /\ ENABLED InvokeHandler(r)

\* the handler of run r waits on a future that is no longer the one
\* registered for its session id
Overwritten(r) ==
  /\ runs[r].hpc = "waiting"
  /\ submission_futures[runs[r].sid] # runs[r].fut

\* C38: a handler that starts while another handler of the same session id
\* is suspended replaces the registered future by its own.  The registry
\* entry of a session id changes only to the future of the handler that
\* starts in the step or to no future, and a submit changes only the
\* registered future.  A handler whose future was overwritten while
\* unresolved stays suspended on it, overwritten and unresolved, in every
\* later state.
C38_SecondHandlerOverwritesSlot ==
  [][ /\ \A r1, r2 \in RunIds :
           ( /\ r1 # r2
             /\ runs[r1].sid = runs[r2].sid
             /\ runs[r1].hpc = "waiting"
             /\ runs[r2].hpc = "none"
             /\ runs'[r2].hpc = "waiting" ) =>
              /\ submission_futures'[runs[r2].sid] = runs'[r2].fut
              /\ Overwritten(r1)'
      /\ \A s \in DOMAIN submission_futures :
           submission_futures'[s] # submission_futures[s] =>
              \/ submission_futures'[s] = NoFuture
              \/ \E r \in RunIds :
                    /\ runs[r].sid = s
                    /\ runs[r].hpc = "none"
                    /\ runs'[r].hpc = "waiting"
                    /\ submission_futures'[s] = runs'[r].fut
      /\ diag' # NoDiag =>
           \A f \in FutureIds :
              futures'[f] # futures[f] =>
                 \E s \in DOMAIN submission_futures :
                    submission_futures[s] = f
      /\ \A r \in RunIds :
           (Overwritten(r) /\ futures[runs[r].fut] = "pending") =>
              /\ Overwritten(r)'
              /\ runs'[r].fut = runs[r].fut
              /\ futures'[runs'[r].fut] = "pending"
    ]_vars

\* C38 witness: two runs of one session id; the handler of the first still
\* waits on its unresolved, overwritten future after the handler of the
\* second was resumed by a submit and returned its reply.
C38_Witness ==
  \E r1, r2 \in RunIds :
     /\ r1 # r2
     /\ runs[r1].sid = runs[r2].sid
     /\ Overwritten(r1)
     /\ futures[runs[r1].fut] = "pending"
     /\ Len(runs[r2].replies) > 0
     /\ runs[r2].replies[1].content \in Answers

\* the step belongs to a flagged /submit_elicitation request: the request
\* is accepted or its generator runs
FlaggedStep ==
  /\ legacy' # legacy
  /\ legacy'.pc = "submit" \/ legacy.pc = "submit"

\* C39: a step of a flagged /submit_elicitation request changes nothing of
\* the session bridge: no future, no registry entry, no queue, no run and
\* no generator.  The generator calls the tool the request names with the
\* request's arguments through the legacy client and streams its result or
\* an error.  A handler suspended on an unresolved registered future is in
\* the same state after the step.
C39_FlaggedSubmitLeavesBridge ==
  [][ FlaggedStep =>
        /\ UNCHANGED managerVars
        /\ \A r \in RunIds :
             (runs[r].hpc = "waiting" /\ futures[runs[r].fut] = "pending") =>
                /\ runs'[r].hpc = "waiting"
                /\ futures'[runs'[r].fut] = "pending"
                /\ submission_futures'[runs[r].sid]
                     = submission_futures[runs[r].sid]
        /\ legacy.pc = "submit" =>
             /\ legacy'.pc = "done"
             /\ legacy'.tool_name = legacy.tool_name
             /\ legacy'.tool_args = legacy.tool_args
             /\ legacy'.outcome \in {"raised", "tool"}
             /\ legacy'.outcome = "tool" =>
                  /\ legacy'.returned =
                       ServerReturn(legacy.tool_name, legacy.tool_args,
                                    auth_store)
                  /\ Len(legacy'.stream) = 1
                  /\ legacy'.stream[1].type = "result"
    ]_vars

\* C39 witness: a flagged request for the legacy ticket tool was served
\* with the tool's result while the handler of a v2 run waits on its
\* registered, unresolved future.
C39_Witness ==
  /\ legacy.pc = "done"
  /\ legacy.outcome = "tool"
  /\ legacy.tool_name = "create_ticket"
  /\ "reporter_name" \in DOMAIN legacy.tool_args
  /\ \E r \in RunIds :
        /\ runs[r].hpc = "waiting"
        /\ futures[runs[r].fut] = "pending"
        /\ submission_futures[runs[r].sid] = runs[r].fut

\* the legacy request being served calls oauth_auth with a state and no
\* auth_code: the tool verifies the state against auth_store
VerifiesState ==
  /\ legacy.pc \in {"chat", "submit"}
  /\ legacy.tool_name = "oauth_auth"
  /\ Given(legacy.tool_args, "state")
  /\ ~Given(legacy.tool_args, "auth_code")

\* the text of the result the tool call of the legacy request returned
ReturnedText(l) == Get(l.returned.obj.v, << "text" >>, PyNone).v

\* C40: a callback request with a code and a state puts the state in the
\* store and is accepted; any other callback request leaves the store as
\* it was and is refused.  A verification, by login_v2 resumed or by
\* oauth_auth called with a state, reports success exactly when the state
\* is in the store and leaves the store without it.  The store gains a
\* state only by an accepted callback and loses one only by a verification
\* of that state; so a verified state is absent from the store, and a
\* later verification of it fails, until a callback records it again.
C40_ApprovalIsSingleUse ==
  [][ /\ \A code \in CodeParams, state \in StateParams :
           oauth_callback(code, state) =>
              IF code # "" /\ state # ""
                THEN /\ auth_store' = auth_store \cup {state}
                     /\ callback_status' = 200
                ELSE /\ auth_store' = auth_store
                     /\ callback_status' = 400
      /\ \A i \in LoginIds :
           (logins[i].pc = "answered" /\ logins'[i].pc = "done") =>
              /\ logins'[i].text = "Authentication successful (v2)!"
                   <=> StateOf(i) \in auth_store
              /\ logins'[i].text = "Authentication failed (v2)"
                   <=> StateOf(i) \notin auth_store
              /\ auth_store' = auth_store \ {StateOf(i)}
      /\ (VerifiesState /\ legacy'.pc = "done" /\ legacy'.outcome = "tool") =>
           /\ ReturnedText(legacy') = << "Authentication successful!" >>
                <=> legacy.tool_args.state[1] \in auth_store
           /\ ReturnedText(legacy') = << "Authentication failed" >>
                <=> legacy.tool_args.state[1] \notin auth_store
           /\ auth_store' = auth_store \ {legacy.tool_args.state[1]}
      /\ \A state \in auth_store' \ auth_store :
           /\ callback_status' = 200
           /\ legacy' = legacy
           /\ \A i \in LoginIds : logins'[i].pc = logins[i].pc
      /\ \A state \in auth_store \ auth_store' :
           \/ \E i \in LoginIds :
                 /\ StateOf(i) = state
                 /\ logins[i].pc = "answered"
                 /\ logins'[i].pc = "done"
           \/ /\ VerifiesState
              /\ legacy'.pc = "done"
              /\ legacy.tool_args.state[1] = state
    ]_vars

\* C40 witness: the only callback requests accepted so far were for the
\* state of the legacy login; the state is no longer in the store, so a
\* verification has used it, and the verification made after that one
\* reported failure.  An invocation of login_v2 whose state was never
\* recorded has failed as well.
C40_Witness ==
  /\ callback_status = 200
  /\ \A i \in LoginIds : ~logins[i].approved
  /\ V1State \notin auth_store
  /\ legacy.pc = "done"
  /\ legacy.outcome = "tool"
  /\ legacy.tool_name = "oauth_auth"
  /\ Given(legacy.tool_args, "state")
  /\ legacy.tool_args.state[1] = V1State
  /\ ReturnedText(legacy) = << "Authentication failed" >>
  /\ \E i \in LoginIds : logins[i].text = "Authentication failed (v2)"
=============================================================================
